---- MODULE Spec2Model ----
(***************************************************************************)
(* Synchronization pipeline of projeto-pncp: the PNCP client's retry loop  *)
(* (pncp_client.py), the page loop, the per-record reconciliation and the  *)
(* scheduler of PNCPSyncService (pncp_sync.py), and the Licitacao table    *)
(* (models/licitacao.py);                                                  *)
(* ElasticsearchService.search_text (utils/elasticsearch_service.py) and   *)
(* the search endpoint (routes/search.py).                                 *)
(*                                                                         *)
(* The specifications share the same actions:                              *)
(*   Spec        one caller runs sync_licitacoes, run after run;           *)
(*   SpecConc    two threads (manual callers and scheduler threads);       *)
(*   SpecRequest a caller of PNCPClient (_make_request, fetch_licitacoes); *)
(*   SpecFields  runs over records that differ in dates and descriptions;  *)
(*   SpecStale   runs that update one entity while indexing succeeds or    *)
(*               fails;                                                    *)
(*   SpecIndex   runs whose indexing and commits succeed or fail;          *)
(*   SpecSkip    runs over pages with records that carry no identifier;    *)
(*   SpecLive    one run from its call to its return, under fairness of    *)
(*               the calling thread;                                       *)
(*   SpecSearch  requests of GET /api/search/licitacoes;                   *)
(*   SpecWindow  runs called with explicit dates, checkpoint writes that   *)
(*               succeed or fail;                                          *)
(*   SpecSched   start and stop of the scheduled sync, under fairness of   *)
(*               the scheduler threads;                                    *)
(*   SpecEs      two callers of ElasticsearchService: create_index,        *)
(*               index_document, get_document and search_text.             *)
(***************************************************************************)
EXTENDS Integers, Sequences, FiniteSets, TLC

VARIABLES
    th,               \* thread -> frame of the call the thread is executing
    licitacoes_tbl,   \* table 'licitacoes': sequence of rows, row k has id = k
    es_docs,          \* the documents of the index the runs write: id -> document
    last_sync,        \* content of last_sync.json: NoFile or the timestamp
    now,              \* the last value datetime.now() returned, in whole ticks
    max_retries,      \* PNCPClient.max_retries (configuration)
    is_running,       \* PNCPSyncService.is_running
    scheduler_thread, \* PNCPSyncService.scheduler_thread (a thread or NoThread)
    search,           \* the request of GET /api/search/licitacoes being served
    es,               \* the Elasticsearch index and the calls of the service
    stop_called,      \* history: stop_scheduled_sync was called since the last start
    queried,          \* history: the days the runs that completed have queried
    jobs              \* number of periodic jobs registered with `schedule`

vars == <<th, licitacoes_tbl, es_docs, last_sync, now, max_retries,
          is_running, scheduler_thread, search, es, stop_called, queried,
          jobs>>

----------------------------------------------------------------------------
(* Bounds of the model *)

MaxPageLen == 2     \* records in one page of the remote source
MaxTotal   == 2     \* largest totalPaginas the source reports
MaxRetries == 3     \* largest configured max_retries
MaxNow     == 1     \* clock ticks
MaxJobs    == 2     \* registered jobs are counted up to this number

Threads  == {"t1", "t2"}
NoThread == "none"
NoFile   == -1
EmptyFile == -2     \* last_sync.json exists and holds no JSON document
None     == -1      \* Python None where the other values are naturals

----------------------------------------------------------------------------
(* JSON values of the remote source's responses *)

JAbsent   == [t |-> "absent", s |-> "", n |-> 0]   \* the key is not in the mapping
JNull     == [t |-> "null",   s |-> "", n |-> 0]
JStr(x)   == [t |-> "str",    s |-> x,  n |-> 0]
JInt(x)   == [t |-> "int",    s |-> "", n |-> x]

\* Python truthiness of d.get(key): None, '' and 0 are false
Truthy(v) ==
    CASE v.t = "absent" -> FALSE
      [] v.t = "null"   -> FALSE
      [] v.t = "str"    -> v.s # ""
      [] v.t = "int"    -> v.n # 0

\* Python str(v) of a string or an integer
PyStr(v) == IF v.t = "int" THEN ToString(v.n) ELSE v.s

\* The keys of a raw record that _create_licitacao and _update_licitacao
\* read besides the identifiers: the descriptive fields and the four dates
NoFields ==
    [objeto |-> JAbsent, descricao |-> JAbsent, valorTotal |-> JAbsent,
     situacao |-> JAbsent, dataPublicacaoPncp |-> JAbsent,
     dataPublicacao |-> JAbsent, dataInclusao |-> JAbsent,
     dataAbertura |-> JAbsent]

\* A raw record: a mapping with the keys the reconciliation reads, or a value
\* that is not a mapping at all (mapping = FALSE).
Rec(ncp, id, mod) ==
    [mapping |-> TRUE, numeroControlePNCP |-> ncp, id |-> id, modalidade |-> mod]
    @@ NoFields
NotAMapping ==
    [mapping |-> FALSE, numeroControlePNCP |-> JAbsent, id |-> JAbsent,
     modalidade |-> JAbsent] @@ NoFields
NoRecord ==
    [mapping |-> FALSE, numeroControlePNCP |-> JNull, id |-> JNull,
     modalidade |-> JNull] @@ NoFields

RawRecords ==
    { Rec(ncp, id, JAbsent) :
        ncp \in {JAbsent, JNull, JStr(""), JInt(0), JStr("A")},
        id  \in {JAbsent, JInt(5)} }
    \cup { Rec(JStr("A"), JAbsent, JStr("x")), NotAMapping }

\* A page element whose content the source supplies when the loop reads it:
\* the elements of a page are independent inputs, so drawing licitacoes[i]
\* when the loop reaches it yields the same runs as drawing the whole list
\* at the fetch.
Unread ==
    [mapping |-> FALSE, numeroControlePNCP |-> JStr("unread"), id |-> JNull,
     modalidade |-> JNull] @@ NoFields

SeqsUpTo(S, n) == UNION { [1..k -> S] : k \in 0..n }

\* The response body of a 2xx answer: the lists under 'content' and 'data'
\* (has_* tells whether the key is there) and the value under 'totalPaginas'.
Response(hc, c, hd, d, tp) ==
    [has_content |-> hc, content |-> c, has_data |-> hd, data |-> d,
     totalPaginas |-> tp]
NoResponse == Response(FALSE, <<>>, FALSE, <<>>, JNull)
Responses(Content, Pages, Totals) ==
    { Response(hc, c, hd, d, tp) :
        hc \in BOOLEAN, c \in Content, hd \in BOOLEAN, d \in Pages, tp \in Totals }
    \ { r \in [has_content : BOOLEAN, content : Content, has_data : BOOLEAN,
               data : Pages, totalPaginas : Totals] :
          (~r.has_content /\ r.content # <<>>) \/ (~r.has_data /\ r.data # <<>>) }

\* The inputs a specification draws from: the records of the remote source,
\* the lists it sends under 'content' and under 'data', the totalPaginas
\* values it reports, and whether a frame keeps the response it received
\* (history, for the envelope claims).
Inputs(Records, Content, Pages, Totals, keep) ==
    [Records |-> Records, Content |-> Content, Pages |-> Pages,
     Totals |-> Totals, keep |-> keep]

TotalValues == {JAbsent, JNull} \cup { JInt(k) : k \in 0..MaxTotal }

----------------------------------------------------------------------------
(* Dates: the arguments of sync_licitacoes and the window it sends *)

\* A date argument or parameter: the form of the string and the day it
\* names (days are the ticks of the clock). "none" is Python None.
DateStr(form, day) == [form |-> form, day |-> day]
NoDate == DateStr("none", 0)

\* len(s) of a date string
StrLen(d) ==
    CASE d.form = "YYYYMMDD"   -> 8
      [] d.form = "YYYY-M-D"   -> 8     \* as in '2024-5-1'
      [] d.form = "DD/MM/YY"   -> 8
      [] d.form = "YYYY-MM-DD" -> 10
      [] d.form = "DD/MM/YYYY" -> 10
      [] d.form = ""           -> 0

\* datetime.strptime(s, '%Y-%m-%d'): the day, or a ValueError; %m and %d
\* take one or two digits
Strptime(d) ==
    IF d.form \in {"YYYY-MM-DD", "YYYY-M-D"}
    THEN [raises |-> FALSE, day |-> d.day]
    ELSE [raises |-> TRUE, day |-> 0]

\* dt.strftime('%Y%m%d')
Strftime(day) == DateStr("YYYYMMDD", day)

\* timestamp[:10] of an isoformat() timestamp
IsoDatePrefix(timestamp) == DateStr("YYYY-MM-DD", timestamp)

\* timedelta(days=30), line 97
LookbackDays == 30

\* the params of a request that no run has built
NoParams == [dataInicial |-> NoDate, dataFinal |-> NoDate]

----------------------------------------------------------------------------
(* Thread frames *)

\* The frame of an idle thread. op is the call in progress, pc the place in
\* it; the other fields are the locals of sync_licitacoes and _make_request,
\* then what the call returned, then history of the current call.
IdleFrame ==
    [ op |-> "none", pc |-> "idle", in_scheduler |-> FALSE,
      attempt |-> 0,
      timestamp |-> None,
      pagina_atual |-> 0, total_paginas |-> None,
      licitacoes |-> <<>>, i |-> 0,
      licitacao_data |-> NoRecord, licitacao_id |-> "", existing |-> 0,
      count |-> 0, total_count |-> 0,
      \* outcome of the call
      ret_kind |-> "none", ret |-> 0, ret_list |-> <<>>, ret_dict |-> NoResponse,
      ret_none |-> FALSE,
      \* history
      result |-> NoResponse, requests |-> 0, waits |-> <<>>,
      data_inicial |-> NoDate, data_final |-> NoDate, hoje |-> None,
      params |-> NoParams,
      pages_req |-> {}, first_total |-> JNull, empty_page |-> 0,
      fetch_failed |-> FALSE, loop_exit |-> "none", ckpt_writes |-> 0,
      last_sync_before |-> NoFile,
      unprocessed |-> 0, committed |-> 0 ]

----------------------------------------------------------------------------
(* PNCPClient._make_request and its callers *)

\* fetch_licitacoes, lines 122-132: the list under 'content' if the key is
\* there, else the one under 'data', else the empty list
FetchLicitacoesList(result) ==
    IF result.has_content THEN result.content
    ELSE IF result.has_data THEN result.data
    ELSE <<>>

\* sync_licitacoes, line 121: licitacoes = result.get('data', [])
SyncRecordList(result) ==
    IF result.has_data THEN result.data ELSE <<>>

\* sync_licitacoes, line 123: result.get('totalPaginas', 1); JSON null is
\* Python None
TotalPaginasOf(result) ==
    CASE result.totalPaginas.t = "absent" -> 1
      [] result.totalPaginas.t = "int"    -> result.totalPaginas.n
      [] OTHER                            -> None

\* OuterExcept as a 'finally' would behave: the checkpoint is written on
\* the way out of a failed run
OuterExcept_Checkpoints(f) ==
    [f EXCEPT !.pc = "checkpoint", !.loop_exit = "exception"]

\* sync_licitacoes, lines 160-162: the outer handler logs and returns 0
OuterExcept(f) ==
    [f EXCEPT !.pc = "done", !.ret_kind = "return", !.ret = 0,
              !.loop_exit = "exception"]

\* EmptyPage that takes a page without records for an error of the run
EmptyPage_Raises(f) == OuterExcept(f)

\* sync_licitacoes, lines 126-128: a page without records ends the loop by
\* its break, and the run goes on to the checkpoint
EmptyPage(f) ==
    [f EXCEPT !.pc = "checkpoint", !.loop_exit = "empty",
              !.empty_page = f.pagina_atual]

\* sync_licitacoes, lines 121-129: what the loop does with a page's response
SyncOnResult(f, result) ==
    LET licitacoes == SyncRecordList(result)
        first      == f.total_paginas = None
        g == [f EXCEPT
                !.licitacoes = licitacoes,
                !.total_paginas = IF first THEN TotalPaginasOf(result) ELSE @,
                !.first_total = IF f.pagina_atual = 1 THEN result.totalPaginas ELSE @,
                !.attempt = 0, !.requests = 0, !.waits = <<>>,
                !.unprocessed = @ + Len(licitacoes)]
    IN  IF licitacoes = <<>> THEN EmptyPage(g)
        ELSE [g EXCEPT !.pc = "record", !.count = 0, !.i = 1]

\* The caller's continuation when _make_request returns `result`
OnReturn(f, result) ==
    CASE f.op = "_make_request" ->
            [f EXCEPT !.pc = "done", !.ret_kind = "return", !.ret_dict = result]
      [] f.op = "fetch_licitacoes" ->
            [f EXCEPT !.pc = "done", !.ret_kind = "return",
                      !.ret_list = FetchLicitacoesList(result)]
      [] f.op = "sync_licitacoes" -> SyncOnResult(f, result)

\* The caller's continuation when _make_request raises (line 103):
\* fetch_licitacoes catches it and returns [] (lines 133-135),
\* sync_licitacoes catches it in its outer handler
OnRaise(f) ==
    LET g == [f EXCEPT !.fetch_failed = TRUE] IN
    CASE f.op = "_make_request" -> [g EXCEPT !.pc = "done", !.ret_kind = "raise"]
      [] f.op = "fetch_licitacoes" ->
            [g EXCEPT !.pc = "done", !.ret_kind = "return", !.ret_list = <<>>]
      [] f.op = "sync_licitacoes" -> OuterExcept(g)

\* The caller's continuation when the loop of _make_request ends without a
\* return (range(max_retries) is empty): the call returns None; the callers'
\* 'in' and .get on None raise, and their handlers catch that
OnNone(f) ==
    CASE f.op = "_make_request" ->
            [f EXCEPT !.pc = "done", !.ret_kind = "return", !.ret_none = TRUE]
      [] f.op = "fetch_licitacoes" ->
            [f EXCEPT !.pc = "done", !.ret_kind = "return", !.ret_list = <<>>]
      [] f.op = "sync_licitacoes" -> OuterExcept(f)

\* PNCPClient.retry_delay: config.get('retry_delay', 2), line 35
retry_delay == 2

\* WaitTime that does not grow
WaitTime_Constant(attempt) == retry_delay

\* line 98: wait_time = self.retry_delay * (2 ** attempt)
WaitTime(attempt) == retry_delay * 2^attempt

\* One pass of the loop of _make_request (lines 64-103): the request succeeds
\* with a 2xx response, or fails with a RequestException; a failure is
\* followed by a sleep and the next attempt, the last one by the raise.
\* requests counts the requests sent by the call and waits lists its sleeps
\* (history).
make_request_attempt(t, In) ==
    /\ th[t].pc = "request"
    /\ th[t].attempt < max_retries
    /\ LET f == [th[t] EXCEPT !.requests = @ + 1,
                              !.pages_req =
                    IF th[t].op = "sync_licitacoes"
                    THEN @ \cup {th[t].pagina_atual} ELSE @]
       IN \/ \E result \in Responses(In.Content, In.Pages, In.Totals) :
               th' = [th EXCEPT ![t] =
                        OnReturn([f EXCEPT !.result = IF In.keep THEN result ELSE @],
                                 result)]
          \/ /\ f.attempt < max_retries - 1
             /\ th' = [th EXCEPT ![t] =
                         [f EXCEPT !.attempt = @ + 1,
                                   !.waits = Append(@, WaitTime(f.attempt))]]
          \/ /\ ~(f.attempt < max_retries - 1)
             /\ th' = [th EXCEPT ![t] = OnRaise(f)]
    /\ UNCHANGED <<jobs, queried, es, stop_called,
                   search, licitacoes_tbl, es_docs, last_sync, now, max_retries,
                   is_running, scheduler_thread>>

\* The loop of _make_request is over without a return or a raise
make_request_exhausted(t) ==
    /\ th[t].pc = "request"
    /\ ~(th[t].attempt < max_retries)
    /\ th' = [th EXCEPT ![t] = OnNone(th[t])]
    /\ UNCHANGED <<jobs, queried, es, stop_called,
                   search, licitacoes_tbl, es_docs, last_sync, now, max_retries,
                   is_running, scheduler_thread>>

\* A caller calls _make_request or fetch_licitacoes
client_call(t, op) ==
    /\ th[t].pc = "idle"
    /\ th' = [th EXCEPT ![t] = [IdleFrame EXCEPT !.op = op, !.pc = "request"]]
    /\ UNCHANGED <<jobs, queried, es, stop_called,
                   search, licitacoes_tbl, es_docs, last_sync, now, max_retries,
                   is_running, scheduler_thread>>

\* The call is over and the caller has its outcome
client_return(t) ==
    /\ th[t].pc = "done"
    /\ th[t].op \in {"_make_request", "fetch_licitacoes"}
    /\ th' = [th EXCEPT ![t] = IdleFrame]
    /\ UNCHANGED <<jobs, queried, es, stop_called,
                   search, licitacoes_tbl, es_docs, last_sync, now, max_retries,
                   is_running, scheduler_thread>>

----------------------------------------------------------------------------
(* The wall clock *)

\* The values a call of datetime.now() can return: the clock does not go
\* back, and a specification follows it up to MaxClock
DatetimeNow(MaxClock) == { n \in 0..MaxClock : n >= now }

----------------------------------------------------------------------------
(* The Licitacao table and the search index *)

\* Query_first without its filter: the first row of the table
Query_first_NoFilter(tbl, id_externo) == IF Len(tbl) > 0 THEN 1 ELSE 0

\* Licitacao.query.filter_by(id_externo=...).first() (line 141): the id of
\* the row with that id_externo, 0 for None
Query_first(tbl, id_externo) ==
    IF \E k \in 1..Len(tbl) : tbl[k].id_externo = id_externo
    THEN CHOOSE k \in 1..Len(tbl) :
            /\ tbl[k].id_externo = id_externo
            /\ \A j \in 1..(k - 1) : tbl[j].id_externo # id_externo
    ELSE 0

\* UniqueViolation of a column declared without unique=True
UniqueViolation_Never(tbl, id_externo) == FALSE

\* id_externo is declared unique=True (models/licitacao.py, line 21): the
\* INSERT of a second row with the same value fails with an IntegrityError
UniqueViolation(tbl, id_externo) ==
    \E k \in 1..Len(tbl) : tbl[k].id_externo = id_externo

\* ExternalId with the two keys tried in the other order
ExternalId_IdFirst(rec) ==
    IF Truthy(rec.id) THEN PyStr(rec.id)
    ELSE IF Truthy(rec.numeroControlePNCP) THEN PyStr(rec.numeroControlePNCP)
    ELSE ""

\* The external id of a raw record (lines 132-140): str(numeroControlePNCP)
\* if that value is truthy, else str(id) if that one is, else none ("")
ExternalId(rec) ==
    IF Truthy(rec.numeroControlePNCP) THEN PyStr(rec.numeroControlePNCP)
    ELSE IF Truthy(rec.id) THEN PyStr(rec.id)
    ELSE ""

\* _create_licitacao raises before the commit when .get is called on a value
\* of 'modalidade' that is not a mapping (line 215)
CreateRaises(rec) == rec.modalidade.t \notin {"absent", "dict"}

\* str.replace('Z', '+00:00') on the date strings of the model
ReplaceZ(s) ==
    IF s = "2024-05-02T00:00:00Z" THEN "2024-05-02T00:00:00+00:00" ELSE s

\* datetime.fromisoformat accepts these strings; it raises ValueError on any
\* other string
IsoFormats ==
    {"2024-05-01", "2024-05-02T00:00:00+00:00", "2024-05-03", "2024-05-04"}

\* datetime.fromisoformat of an accepted string: the datetime, as the day of
\* May 2024
FromIsoFormat(s) ==
    CASE s = "2024-05-01"                -> 1
      [] s = "2024-05-02T00:00:00+00:00" -> 2
      [] s = "2024-05-03"                -> 3
      [] s = "2024-05-04"                -> 4

\* The try of lines 184-187 (and of each of its copies): the parsed value of
\* v; a string that does not parse raises ValueError, which the except
\* catches, and the date keeps `previous`; a value that is not a string has
\* no .replace and raises AttributeError, which the except does not catch
ParseDate(v, previous) ==
    IF v.t = "str"
    THEN IF ReplaceZ(v.s) \in IsoFormats
         THEN [raises |-> FALSE, value |-> FromIsoFormat(ReplaceZ(v.s))]
         ELSE [raises |-> FALSE, value |-> previous]
    ELSE [raises |-> TRUE, value |-> previous]

\* DataPublicacao with the three keys tried in the reverse order
DataPublicacao_InclusaoFirst(rec, previous) ==
    IF rec.dataInclusao.t # "absent"
    THEN ParseDate(rec.dataInclusao, previous)
    ELSE IF rec.dataPublicacao.t # "absent"
    THEN ParseDate(rec.dataPublicacao, previous)
    ELSE IF rec.dataPublicacaoPncp.t # "absent"
    THEN ParseDate(rec.dataPublicacaoPncp, previous)
    ELSE [raises |-> FALSE, value |-> previous]

\* lines 181-197 and 260-275: the if/elif chain over the keys
\* dataPublicacaoPncp, dataPublicacao, dataInclusao; the first key that is
\* in the record is the only one parsed
DataPublicacao(rec, previous) ==
    IF rec.dataPublicacaoPncp.t # "absent"
    THEN ParseDate(rec.dataPublicacaoPncp, previous)
    ELSE IF rec.dataPublicacao.t # "absent"
    THEN ParseDate(rec.dataPublicacao, previous)
    ELSE IF rec.dataInclusao.t # "absent"
    THEN ParseDate(rec.dataInclusao, previous)
    ELSE [raises |-> FALSE, value |-> previous]

\* lines 199-204 and 278-282: data_abertura from the key dataAbertura
DataAbertura(rec, previous) ==
    IF rec.dataAbertura.t # "absent"
    THEN ParseDate(rec.dataAbertura, previous)
    ELSE [raises |-> FALSE, value |-> previous]

\* a date of the record raises out of _create_licitacao or _update_licitacao
DateRaises(rec) ==
    DataPublicacao(rec, None).raises \/ DataAbertura(rec, None).raises

\* dict.get(key, default): the value under the key, null included, or the
\* default when the key is not there
Get(v, default) == IF v.t = "absent" THEN default ELSE v

\* The row _create_licitacao adds (lines 177-224); indexado defaults to False
\* and data_indexacao to None
NewRow(tbl, id_externo, rec) ==
    [id |-> Len(tbl) + 1, id_externo |-> id_externo, indexado |-> FALSE,
     data_indexacao |-> None,
     objeto |-> Get(rec.objeto, JStr("")),
     descricao |-> Get(rec.descricao, JStr("")),
     valor_estimado |-> Get(rec.valorTotal, JNull),
     situacao |-> Get(rec.situacao, JNull),
     data_publicacao |-> DataPublicacao(rec, None).value,
     data_abertura |-> DataAbertura(rec, None).value]

\* UpdatedRow that resets the indexing status of the row it updates
UpdatedRow_ResetsIndexado(row, rec) ==
    [row EXCEPT !.indexado = FALSE, !.data_indexacao = None]

\* The row after the assignments of _update_licitacao (lines 253-282)
UpdatedRow(row, rec) ==
    [row EXCEPT
        !.objeto = Get(rec.objeto, row.objeto),
        !.descricao = Get(rec.descricao, row.descricao),
        !.valor_estimado = Get(rec.valorTotal, row.valor_estimado),
        !.situacao = Get(rec.situacao, row.situacao),
        !.data_publicacao = DataPublicacao(rec, row.data_publicacao).value,
        !.data_abertura = DataAbertura(rec, row.data_abertura).value]

\* Indexed that marks the row whatever index_document returned
Indexed_Always(tbl, k, es_ok, commit_ok, at) ==
    [tbl EXCEPT ![k].indexado = TRUE, ![k].data_indexacao = at]

\* _index_licitacao (lines 303-336): when index_document returned True the
\* row is marked indexado with data_indexacao = datetime.now() (`at`) and
\* that is committed
\* (line 329); a failed index_document, or an exception anywhere in the
\* method (the commit included), leaves the row as it was
Indexed(tbl, k, es_ok, commit_ok, at) ==
    IF es_ok /\ commit_ok
    THEN [tbl EXCEPT ![k].indexado = TRUE, ![k].data_indexacao = at]
    ELSE tbl

\* datetime.isoformat() of a day of May 2024
IsoFormat(day) ==
    CASE day = 1 -> "2024-05-01T00:00:00"
      [] day = 2 -> "2024-05-02T00:00:00"
      [] day = 3 -> "2024-05-03T00:00:00"
      [] day = 4 -> "2024-05-04T00:00:00"

\* Licitacao.to_dict (licitacao.py, lines 63-89), for the columns of the
\* rows of the model: a date as its isoformat() string, or None
ToDict(row) ==
    [id |-> JInt(row.id), id_externo |-> JStr(row.id_externo),
     objeto |-> row.objeto, descricao |-> row.descricao,
     valor_estimado |-> row.valor_estimado, situacao |-> row.situacao,
     data_publicacao |-> IF row.data_publicacao # None
                         THEN JStr(IsoFormat(row.data_publicacao)) ELSE JNull,
     data_abertura |-> IF row.data_abertura # None
                       THEN JStr(IsoFormat(row.data_abertura)) ELSE JNull]

\* client.index(index, id, document) (elasticsearch_service.py, lines
\* 165-169): the document is stored under the id and replaces the one that
\* was there
StoreDocument(docs, doc_id, document) ==
    [k \in DOMAIN docs \cup {doc_id} |->
        IF k = doc_id THEN document ELSE docs[k]]

\* index_document (elasticsearch_service.py, lines 148-175): the document is
\* stored under doc_id and True returned, or an exception is caught and
\* False returned
index_document(docs, doc_id, document, es_ok) ==
    IF es_ok THEN StoreDocument(docs, doc_id, document) ELSE docs

----------------------------------------------------------------------------
(* PNCPSyncService.sync_licitacoes *)

\* LastPage off by one
LastPage_OffByOne(pagina_atual, total_paginas) == pagina_atual > total_paginas

\* line 153: the page just processed is the last one
LastPage(pagina_atual, total_paginas) == pagina_atual >= total_paginas

\* NextPage that stays on the page just processed
NextPage_Same(pagina_atual) == pagina_atual

\* line 156: pagina_atual += 1
NextPage(pagina_atual) == pagina_atual + 1

\* lines 151-156: the end of a page; comparing with a total_paginas of None
\* raises TypeError, which the outer handler catches
PageEnd(f) ==
    LET g == [f EXCEPT !.total_count = @ + f.count] IN
    IF g.total_paginas = None THEN OuterExcept(g)
    ELSE IF LastPage(g.pagina_atual, g.total_paginas)
    THEN [g EXCEPT !.pc = "checkpoint", !.loop_exit = "last"]
    ELSE [g EXCEPT !.pc = "request", !.attempt = 0,
                   !.pagina_atual = NextPage(@)]

\* the for loop of line 130 moves to the next record, or the page is over
NextRecord(f) ==
    LET g == [f EXCEPT !.licitacao_data = NoRecord, !.licitacao_id = "",
                       !.existing = 0]
    IN IF f.i < Len(f.licitacoes)
       THEN [g EXCEPT !.pc = "record", !.i = @ + 1]
       ELSE PageEnd([g EXCEPT !.i = 0, !.licitacoes = <<>>])

\* get_last_sync_timestamp (lines 53-68): the timestamp in the file, or None
\* when there is no file or json.load raises on it
get_last_sync_timestamp(file) ==
    IF file \in {NoFile, EmptyFile} THEN None ELSE file

\* lines 87-91 and 100-104: an explicit date. A string of 8 characters is
\* sent as it is; anything else goes through strptime and strftime
ExplicitDate(d) ==
    IF StrLen(d) = 8 THEN [raises |-> FALSE, value |-> d]
    ELSE [raises |-> Strptime(d).raises, value |-> Strftime(Strptime(d).day)]

\* lines 85-106: the dataInicial and dataFinal of the requests of a run
\* called with data_inicial and data_final, the checkpoint being last_sync
\* and datetime.now() having returned hoje. None and '' are false.
Window(data_inicial, data_final, last_sync_ts, hoje) ==
    LET given(d) == d.form \notin {"none", ""}
        inicial  ==
            IF given(data_inicial) THEN ExplicitDate(data_inicial)
            ELSE IF last_sync_ts # None
            THEN [raises |-> FALSE,
                  value  |-> Strftime(Strptime(IsoDatePrefix(last_sync_ts)).day)]
            ELSE [raises |-> FALSE, value |-> Strftime(hoje - LookbackDays)]
        final    ==
            IF given(data_final) THEN ExplicitDate(data_final)
            ELSE [raises |-> FALSE, value |-> Strftime(hoje)]
    IN [raises |-> inicial.raises \/ final.raises,
        params |-> [dataInicial |-> inicial.value, dataFinal |-> final.value]]

\* StartPage taken from the argument
StartPage_FromArgument(pagina) == pagina

\* line 111: pagina_atual = 1; the argument `pagina` is not read
StartPage(pagina) == 1

\* lines 84-114: the frame of a run that starts, called by run_scheduler or
\* not, with `pagina` as its argument of that name
SyncFrame(in_scheduler, pagina) ==
    [IdleFrame EXCEPT !.op = "sync_licitacoes", !.pc = "request",
                      !.pagina_atual = StartPage(pagina),
                      !.in_scheduler = in_scheduler,
                      !.last_sync_before = last_sync]

\* a caller calls sync_licitacoes with dates of Dates (or without them) and
\* a page of Paginas; the clock is read at line 86, the checkpoint at line
\* 93; a date that strptime rejects raises into the outer handler. With
\* `keep` the frame keeps the arguments and the window of the requests
\* (history).
sync_licitacoes_begin(t, Dates, Paginas, MaxClock, keep) ==
    /\ th[t].pc = "idle"
    /\ \E data_inicial \in Dates, data_final \in Dates, pagina \in Paginas,
          hoje \in DatetimeNow(MaxClock) :
         LET w == Window(data_inicial, data_final,
                         get_last_sync_timestamp(last_sync), hoje)
             f == SyncFrame(FALSE, pagina)
             g == IF keep
                  THEN [f EXCEPT !.data_inicial = data_inicial,
                                 !.data_final = data_final, !.hoje = hoje,
                                 !.params = IF w.raises THEN @ ELSE w.params]
                  ELSE f
         IN /\ now' = hoje
            /\ th' = [th EXCEPT ![t] = IF w.raises THEN OuterExcept(g) ELSE g]
    /\ UNCHANGED <<jobs, queried, es, stop_called,
                   search, licitacoes_tbl, es_docs, last_sync, max_retries,
                   is_running, scheduler_thread>>

\* SkipRecord that treats the missing identifier as an error of the run
SkipRecord_Raises(f) == OuterExcept(f)

\* lines 138-140: a record without an identifier is logged and the loop
\* continues with the next record; count is not incremented
SkipRecord(f) == NextRecord(f)

\* lines 130-141 and the handler of lines 149-150: the external id of the
\* record and the lookup of its row. A record that is not a mapping raises
\* AttributeError at line 133; the handler's own licitacao_data.get (line 150)
\* raises again, and that exception leaves the loop for the outer handler.
reconcile_lookup(t, In) ==
    /\ th[t].pc = "record"
    /\ \E rec \in (IF th[t].licitacoes[th[t].i] = Unread
                   THEN In.Records ELSE {th[t].licitacoes[th[t].i]}) :
         LET f == [th[t] EXCEPT !.unprocessed = @ - 1] IN
         th' = [th EXCEPT ![t] =
                 IF ~rec.mapping THEN OuterExcept(f)
                 ELSE IF ExternalId(rec) = "" THEN SkipRecord(f)
                 ELSE [f EXCEPT !.pc = "write", !.licitacao_data = rec,
                                !.licitacao_id = ExternalId(rec),
                                !.existing = Query_first(licitacoes_tbl,
                                                         ExternalId(rec))]]
    /\ UNCHANGED <<jobs, queried, es, stop_called,
                   search, licitacoes_tbl, es_docs, last_sync, now, max_retries,
                   is_running, scheduler_thread>>

\* IndexFailure that leaves _index_licitacao as an exception
IndexFailure_Propagates(f, es_ok, commit_ok) ==
    IF es_ok /\ commit_ok
    THEN NextRecord([f EXCEPT !.count = @ + 1, !.committed = @ + 1])
    ELSE NextRecord(f)

\* lines 143-148 after _create_licitacao or _update_licitacao committed:
\* _index_licitacao has caught whatever happened in it (lines 334-336), the
\* method returns and the record is counted
AfterCommit(f, es_ok, commit_ok) ==
    NextRecord([f EXCEPT !.count = @ + 1, !.committed = @ + 1])

\* Rollback that leaves the pending write of the session in the table
Rollback_KeepsPending(tbl, pending) == pending

\* lines 235-236 and 298-299: db.session.rollback() discards the row that
\* was added, or the assignments made to the existing row, and the table
\* is as it was before the record
Rollback(tbl, pending) == tbl

\* lines 142-150: _update_licitacao or _create_licitacao, each with its commit
\* and the indexing of the row (the document of line 323 is followed by the
\* entries to_dict gives it, lines 312 and 323); an exception of either is caught by the
\* per-record handler and the loop goes on. DbOk is the set of outcomes of
\* the commit of the row (lines 228 and 291) that the database can produce,
\* EsOk the set of results of index_document (line 323), IndexCommitOk the
\* outcomes of the commit of the indexing status (line 329); the clock is
\* read at line 328, when index_document returned True.
reconcile_write(t, DbOk, EsOk, IndexCommitOk, MaxClock) ==
    LET f     == th[t]
        id    == f.licitacao_id
        rec   == f.licitacao_data
        fail  == NextRecord(f)
    IN
    /\ f.pc = "write"
    /\ \E db_ok \in DbOk, es_ok \in EsOk, commit_ok \in IndexCommitOk :
       \E at \in (IF es_ok THEN DatetimeNow(MaxClock) ELSE {now}) :
         /\ now' = at
         /\ IF f.existing = 0
            THEN \* _create_licitacao
                 IF CreateRaises(rec) \/ DateRaises(rec) \/ ~db_ok
                    \/ UniqueViolation(licitacoes_tbl, id)
                 THEN /\ th' = [th EXCEPT ![t] = fail]
                      /\ licitacoes_tbl' =
                           Rollback(licitacoes_tbl,
                                    Append(licitacoes_tbl,
                                           NewRow(licitacoes_tbl, id, rec)))
                      /\ UNCHANGED es_docs
                 ELSE LET k   == Len(licitacoes_tbl) + 1
                          row == NewRow(licitacoes_tbl, id, rec)
                      IN
                      /\ licitacoes_tbl' =
                           Indexed(Append(licitacoes_tbl, row),
                                   k, es_ok, commit_ok, at)
                      /\ es_docs' = index_document(es_docs, k, ToDict(row),
                                                   es_ok)
                      /\ th' = [th EXCEPT ![t] = AfterCommit(f, es_ok, commit_ok)]
            ELSE \* _update_licitacao
                 IF DateRaises(rec) \/ ~db_ok
                 THEN /\ th' = [th EXCEPT ![t] = fail]
                      /\ licitacoes_tbl' =
                           Rollback(licitacoes_tbl,
                                    [licitacoes_tbl EXCEPT ![f.existing] =
                                        UpdatedRow(@, rec)])
                      /\ UNCHANGED es_docs
                 ELSE LET row == UpdatedRow(licitacoes_tbl[f.existing], rec)
                      IN
                      /\ licitacoes_tbl' =
                           Indexed([licitacoes_tbl EXCEPT ![f.existing] = row],
                                   f.existing, es_ok, commit_ok, at)
                      /\ es_docs' = index_document(es_docs, f.existing,
                                                   ToDict(row), es_ok)
                      /\ th' = [th EXCEPT ![t] = AfterCommit(f, es_ok, commit_ok)]
    /\ UNCHANGED <<jobs, queried, es, stop_called,
                   search, last_sync, max_retries, is_running, scheduler_thread>>

\* Timestamp taken from the end of the window the run queried
Timestamp_WindowEnd(at, f) == f.params.dataFinal.day

\* line 73: timestamp = datetime.now().isoformat(), whatever the run queried
Timestamp(at, f) == at

\* lines 113-156: the days of the window the requests of a run carried, for
\* a frame that kept its params
QueriedDays(params) ==
    IF params = NoParams THEN {}
    ELSE params.dataInicial.day..params.dataFinal.day

\* line 157 with update_last_sync_timestamp, lines 72-74: the timestamp is
\* taken from the clock and the file is opened with mode 'w', which creates
\* or truncates it. An open that fails leaves the file as it was; the
\* exception is logged only (lines 77-78) and the run returns its count.
\* The page loop of the run is over: the days of its window have been
\* queried (history).
update_last_sync_timestamp(t, MaxClock) ==
    /\ th[t].pc = "checkpoint"
    /\ \E io_ok \in BOOLEAN, at \in DatetimeNow(MaxClock) :
         /\ now' = at
         /\ last_sync' = IF io_ok THEN EmptyFile ELSE last_sync
         /\ th' = [th EXCEPT ![t] =
                     IF io_ok
                     THEN [th[t] EXCEPT !.pc = "ckpt_dump",
                                        !.timestamp = Timestamp(at, th[t])]
                     ELSE [th[t] EXCEPT !.pc = "done", !.ret_kind = "return",
                                        !.ret = th[t].total_count]]
    /\ queried' = queried \cup QueriedDays(th[t].params)
    /\ UNCHANGED <<jobs, es, stop_called,
                   search, licitacoes_tbl, es_docs, max_retries, is_running,
                   scheduler_thread>>

\* update_last_sync_timestamp, lines 75-76, and lines 158-159: json.dump
\* writes {'last_sync': timestamp} and the file is closed. DumpOk is the set
\* of outcomes of the write: one that fails leaves the file without a JSON
\* document, and is logged only.
json_dump_last_sync(t, DumpOk) ==
    /\ th[t].pc = "ckpt_dump"
    /\ \E io_ok \in DumpOk :
         /\ last_sync' = IF io_ok THEN th[t].timestamp ELSE last_sync
         /\ th' = [th EXCEPT ![t] =
                     [th[t] EXCEPT !.pc = "done", !.ret_kind = "return",
                                   !.ret = th[t].total_count,
                                   !.timestamp = None,
                                   !.ckpt_writes = IF io_ok THEN @ + 1 ELSE @]]
    /\ UNCHANGED <<jobs, queried, es, stop_called,
                   search, licitacoes_tbl, es_docs, now, max_retries,
                   is_running, scheduler_thread>>

\* sync_licitacoes returns to its caller: a manual caller, or run_scheduler
sync_return(t) ==
    /\ th[t].pc = "done"
    /\ th[t].op = "sync_licitacoes"
    /\ th' = [th EXCEPT ![t] =
                IF th[t].in_scheduler
                THEN [IdleFrame EXCEPT !.op = "run_scheduler", !.pc = "sched_loop",
                                       !.in_scheduler = TRUE]
                ELSE IdleFrame]
    /\ UNCHANGED <<jobs, queried, es, stop_called,
                   search, licitacoes_tbl, es_docs, last_sync, now, max_retries,
                   is_running, scheduler_thread>>

----------------------------------------------------------------------------
(* The scheduler: start_scheduled_sync, run_scheduler, stop_scheduled_sync *)

\* start_scheduled_sync (lines 338-362), called while is_running is False:
\* a new thread is created and started. (Called while is_running is True it
\* logs a warning and changes nothing.)
start_scheduled_sync(t) ==
    /\ ~is_running
    /\ th[t].pc = "idle"
    /\ th' = [th EXCEPT ![t] =
                [IdleFrame EXCEPT !.op = "run_scheduler", !.pc = "spawned",
                                  !.in_scheduler = TRUE]]
    /\ scheduler_thread' = t
    /\ stop_called' = FALSE
    /\ UNCHANGED <<jobs, queried, es, search, licitacoes_tbl, es_docs, last_sync, now, max_retries,
                   is_running>>

\* EveryDo that replaces the job registered before
EveryDo_Replaces(n) == 1

\* line 349: schedule.every(...).minutes.do(...) appends a job to the jobs
\* of the module-level scheduler, which nothing in the service removes;
\* the model counts them up to MaxJobs
EveryDo(n) == IF n < MaxJobs THEN n + 1 ELSE n

\* run_scheduler, lines 345-352: the new thread sets is_running, registers
\* the periodic job and makes the initial call of sync_licitacoes. With
\* `count_jobs` the specification follows the number of registered jobs.
run_scheduler_begin(t, count_jobs) ==
    /\ th[t].pc = "spawned"
    /\ is_running' = TRUE
    /\ jobs' = IF count_jobs THEN EveryDo(jobs) ELSE jobs
    /\ th' = [th EXCEPT ![t] = SyncFrame(TRUE, 1)]
    /\ UNCHANGED <<queried, es, stop_called,
                   search, licitacoes_tbl, es_docs, last_sync, now, max_retries,
                   scheduler_thread>>

\* run_scheduler, lines 355-357, with is_running True: run_pending finds the
\* job due and calls sync_licitacoes (a pass with nothing due only sleeps)
run_scheduler_pending(t) ==
    /\ th[t].pc = "sched_loop"
    /\ is_running
    /\ th' = [th EXCEPT ![t] = SyncFrame(TRUE, 1)]
    /\ UNCHANGED <<jobs, queried, es, stop_called,
                   search, licitacoes_tbl, es_docs, last_sync, now, max_retries,
                   is_running, scheduler_thread>>

\* run_scheduler, line 355, with is_running False: the loop and the thread end
run_scheduler_exit(t) ==
    /\ th[t].pc = "sched_loop"
    /\ ~is_running
    /\ th' = [th EXCEPT ![t] = IdleFrame]
    /\ UNCHANGED <<jobs, queried, es, stop_called,
                   search, licitacoes_tbl, es_docs, last_sync, now, max_retries,
                   is_running, scheduler_thread>>

\* stop_scheduled_sync (lines 364-375), called while is_running is True; the
\* join returns after at most 5 s whether or not the thread has ended. With
\* `hist` the call is recorded in stop_called.
stop_scheduled_sync(hist) ==
    /\ is_running
    /\ is_running' = FALSE
    /\ scheduler_thread' = NoThread
    /\ stop_called' = hist
    /\ UNCHANGED <<jobs, queried, es, search, th, licitacoes_tbl, es_docs, last_sync, now,
                   max_retries>>

\* stop_scheduled_sync, lines 366-368, called while is_running is False
\* (no scheduler was started, or its thread has not yet run line 345): it
\* logs a warning and returns
stop_scheduled_sync_not_running ==
    /\ ~is_running
    /\ stop_called' = TRUE
    /\ UNCHANGED <<jobs, queried, es, search, th, licitacoes_tbl, es_docs, last_sync, now,
                   max_retries, is_running, scheduler_thread>>

----------------------------------------------------------------------------
(* The search API: search_licitacoes (routes/search.py) and                *)
(* ElasticsearchService.search_text (utils/elasticsearch_service.py)       *)

\* request.args of a search request: q and the six filter parameters, each a
\* string or absent
Args(q, modalidade, uf, vmin, vmax, dmin, dmax) ==
    [q |-> q, modalidade |-> modalidade, uf |-> uf, valor_min |-> vmin,
     valor_max |-> vmax, data_abertura_min |-> dmin,
     data_abertura_max |-> dmax]

\* filters = {} (search.py, line 57): no key is in the dict
NoFilters ==
    [modalidade |-> JAbsent, uf |-> JAbsent, valor_min |-> JAbsent,
     valor_max |-> JAbsent, data_abertura_min |-> JAbsent,
     data_abertura_max |-> JAbsent]

\* the strings float() accepts among those of the model; it raises
\* ValueError on the others
FloatFormats == {"1000", "2000"}

\* float(s) of an accepted string
Float(s) == CASE s = "1000" -> 1000 [] s = "2000" -> 2000

\* search.py, lines 68-79: the parameter goes into filters as a float; the
\* ValueError of float() is passed over and the key stays out
FloatFilter(v) ==
    IF v.t = "str" /\ v.s \in FloatFormats THEN JInt(Float(v.s)) ELSE JAbsent

\* search.py, lines 56-87: the filters dict built from request.args;
\* modalidade, uf and the two dates are copied as they are
BuildFilters(args) ==
    [modalidade |-> args.modalidade, uf |-> args.uf,
     valor_min |-> FloatFilter(args.valor_min),
     valor_max |-> FloatFilter(args.valor_max),
     data_abertura_min |-> args.data_abertura_min,
     data_abertura_max |-> args.data_abertura_max]

\* a clause of the filter list: a term or a range on a field
Clause(kind, field, op, value) ==
    [kind |-> kind, field |-> field, op |-> op, value |-> value]

\* the list with the clause if the key is in filters, the empty list if not
ClauseIf(v, clause) == IF v.t # "absent" THEN <<clause>> ELSE <<>>

\* FilterClauses without the clause of uf
FilterClauses_NoUf(filters) ==
    ClauseIf(filters.modalidade,
             Clause("term", "modalidade.keyword", "eq", filters.modalidade))
    \o ClauseIf(filters.valor_min,
                Clause("range", "valor_estimado", "gte", filters.valor_min))
    \o ClauseIf(filters.valor_max,
                Clause("range", "valor_estimado", "lte", filters.valor_max))
    \o ClauseIf(filters.data_abertura_min,
                Clause("range", "data_abertura", "gte", filters.data_abertura_min))
    \o ClauseIf(filters.data_abertura_max,
                Clause("range", "data_abertura", "lte", filters.data_abertura_max))

\* elasticsearch_service.py, lines 270-294: one clause for each key of
\* filters, in this order
FilterClauses(filters) ==
    ClauseIf(filters.modalidade,
             Clause("term", "modalidade.keyword", "eq", filters.modalidade))
    \o ClauseIf(filters.uf, Clause("term", "uf", "eq", filters.uf))
    \o ClauseIf(filters.valor_min,
                Clause("range", "valor_estimado", "gte", filters.valor_min))
    \o ClauseIf(filters.valor_max,
                Clause("range", "valor_estimado", "lte", filters.valor_max))
    \o ClauseIf(filters.data_abertura_min,
                Clause("range", "data_abertura", "gte", filters.data_abertura_min))
    \o ClauseIf(filters.data_abertura_max,
                Clause("range", "data_abertura", "lte", filters.data_abertura_max))

\* elasticsearch_service.py, lines 242-243: the default fields
DefaultFields == <<"objeto^3", "descricao^2", "orgao_nome", "municipio">>

\* elasticsearch_service.py, lines 250-258: the multi_match clause
MultiMatch(text, fields) ==
    [query |-> text, fields |-> fields, type |-> "best_fields",
     operator |-> "and", fuzziness |-> "AUTO"]

\* elasticsearch_service.py, lines 262-265: the sort of the request
Sort ==
    << [field |-> "_score", order |-> "desc"],
       [field |-> "data_abertura", order |-> "asc"] >>

\* elasticsearch_service.py, lines 246-298: the request body search_text
\* builds. must always holds the multi_match clause; the key 'filter' is set
\* (has_filter) when filters is a non-empty dict that yields a clause
SearchTextQuery(text, filters) ==
    LET filter_clauses == IF filters # NoFilters THEN FilterClauses(filters)
                          ELSE <<>>
    IN [bool |-> [must |-> <<MultiMatch(text, DefaultFields)>>,
                  has_filter |-> filter_clauses # <<>>,
                  filter |-> filter_clauses],
        sort |-> Sort]

\* The sort keys of a matching document: its _score for the query and its
\* data_abertura (None when the document has none)
Hit(score, data_abertura) == [score |-> score, data_abertura |-> data_abertura]

\* the value of a sort field of a hit
SortValue(h, field) == IF field = "_score" THEN h.score ELSE h.data_abertura

\* Elasticsearch's comparison on one sort key: -1 when a sorts before b, 1
\* when after, 0 when the key does not order them; a document without the
\* field sorts last
CompareOn(a, b, key) ==
    LET va == SortValue(a, key.field)
        vb == SortValue(b, key.field)
    IN IF va = vb THEN 0
       ELSE IF va = None THEN 1
       ELSE IF vb = None THEN -1
       ELSE IF key.order = "asc" THEN (IF va < vb THEN -1 ELSE 1)
       ELSE (IF va > vb THEN -1 ELSE 1)

\* the comparison on the keys of `sort` from the i-th on: the first key that
\* orders the two hits decides
RECURSIVE Compare(_, _, _, _)
Compare(a, b, sort, i) ==
    IF i > Len(sort) THEN 0
    ELSE IF CompareOn(a, b, sort[i]) # 0 THEN CompareOn(a, b, sort[i])
    ELSE Compare(a, b, sort, i + 1)

\* The orders in which Elasticsearch can return the hits for `sort`: every
\* arrangement of the documents that the sort keys allow; the order of
\* documents that the keys do not separate is not determined by the request
SortedOrders(hits, sort) ==
    LET n == Len(hits) IN
    { items \in [1..n -> 1..n] :
        /\ \A i, j \in 1..n : i # j => items[i] # items[j]
        /\ \A i, j \in 1..n :
              i < j => Compare(hits[items[i]], hits[items[j]], sort, 1) <= 0 }

\* Elasticsearch rejects a range on the date field data_abertura whose
\* bound is not a date; search() catches that and returns {"error": ...}
\* (elasticsearch_service.py, lines 223-225)
SearchFails(query) ==
    \E i \in 1..Len(query.bool.filter) :
        /\ query.bool.filter[i].field = "data_abertura"
        /\ query.bool.filter[i].value.s \notin IsoFormats

\* no request is being served
NoSearch ==
    [pc |-> "idle", args |-> Args(JAbsent, JAbsent, JAbsent, JAbsent, JAbsent,
                                  JAbsent, JAbsent),
     termo |-> "", filters |-> NoFilters,
     query |-> SearchTextQuery("", NoFilters), hits |-> <<>>,
     items |-> <<>>, executions |-> 0, items_again |-> <<>>]

\* search_licitacoes (search.py, lines 47-123): the filters and the request
\* body are built from request.args, Elasticsearch runs the query over the
\* documents that match it (`hits`, with their sort keys) and the handler
\* answers with the hits in the order Elasticsearch returned them
search_licitacoes(ArgSet, HitSets) ==
    /\ search.pc = "idle"
    /\ \E args \in ArgSet, hits \in HitSets :
         LET termo   == IF args.q.t = "absent" THEN "" ELSE args.q.s
             filters == BuildFilters(args)
             query   == SearchTextQuery(termo, filters)
         IN \E items \in (IF SearchFails(query) THEN {<<>>}
                          ELSE SortedOrders(hits, query.sort)) :
              search' = [pc |-> "done", args |-> args, termo |-> termo,
                         filters |-> filters, query |-> query, hits |-> hits,
                         items |-> items, executions |-> 1,
                         items_again |-> <<>>]
    /\ UNCHANGED <<jobs, queried, es, stop_called,
                   th, licitacoes_tbl, es_docs, last_sync, now, max_retries,
                   is_running, scheduler_thread>>

\* the same request is served once more, the index being as it was: the same
\* documents match, with the same sort keys
search_licitacoes_again ==
    /\ search.pc = "done"
    /\ search.executions = 1
    /\ \E items \in (IF SearchFails(search.query) THEN {<<>>}
                     ELSE SortedOrders(search.hits, search.query.sort)) :
         search' = [search EXCEPT !.executions = 2, !.items_again = items]
    /\ UNCHANGED <<jobs, queried, es, stop_called,
                   th, licitacoes_tbl, es_docs, last_sync, now, max_retries,
                   is_running, scheduler_thread>>

\* the response has been sent
search_return ==
    /\ search.pc = "done"
    /\ search' = NoSearch
    /\ UNCHANGED <<jobs, queried, es, stop_called,
                   th, licitacoes_tbl, es_docs, last_sync, now, max_retries,
                   is_running, scheduler_thread>>

----------------------------------------------------------------------------
(* ElasticsearchService (utils/elasticsearch_service.py): the index, and   *)
(* the calls of create_index, index_document, get_document and search_text *)

\* create_index, lines 71-112: the type of each field of the mapping it
\* sends; the sub-field `keyword` of a text field is named field.keyword
CreateIndexMapping ==
    "id" :> "integer" @@ "id_externo" :> "keyword" @@ "fonte" :> "keyword"
    @@ "sequencial" :> "keyword" @@ "ano" :> "keyword"
    @@ "objeto" :> "text" @@ "objeto.keyword" :> "keyword"
    @@ "descricao" :> "text" @@ "valor_estimado" :> "float"
    @@ "modalidade" :> "keyword" @@ "situacao" :> "keyword"
    @@ "data_publicacao" :> "date" @@ "data_abertura" :> "date"
    @@ "orgao_nome" :> "text" @@ "orgao_nome.keyword" :> "keyword"
    @@ "orgao_id" :> "keyword"
    @@ "municipio" :> "text" @@ "municipio.keyword" :> "keyword"
    @@ "uf" :> "keyword"
    @@ "data_criacao" :> "date" @@ "data_atualizacao" :> "date"

\* The mapping Elasticsearch derives for an index that the first document
\* creates (no create_index before it): a string becomes a text field with
\* a keyword sub-field
DynamicMapping ==
    "id" :> "long" @@ "valor_estimado" :> "float"
    @@ "id_externo" :> "text" @@ "id_externo.keyword" :> "keyword"
    @@ "objeto" :> "text" @@ "objeto.keyword" :> "keyword"
    @@ "descricao" :> "text" @@ "descricao.keyword" :> "keyword"
    @@ "modalidade" :> "text" @@ "modalidade.keyword" :> "keyword"
    @@ "situacao" :> "text" @@ "situacao.keyword" :> "keyword"
    @@ "uf" :> "text" @@ "uf.keyword" :> "keyword"
    @@ "data_publicacao" :> "date" @@ "data_abertura" :> "date"

FieldType(mapping, field) ==
    IF field \in DOMAIN mapping THEN mapping[field] ELSE "unmapped"

\* the key of the document a field or sub-field of the mapping is read from
SourceKey(field) ==
    CASE field = "modalidade.keyword" -> "modalidade"
      [] field = "objeto.keyword"     -> "objeto"
      [] field = "uf.keyword"         -> "uf"
      [] field = "objeto^3"           -> "objeto"
      [] field = "descricao^2"        -> "descricao"
      [] OTHER                        -> field

SourceValue(doc, field) ==
    IF SourceKey(field) \in DOMAIN doc THEN doc[SourceKey(field)] ELSE JNull

\* The terms the analyzer of a text field (and of the text of a query)
\* makes of the strings of the model: lower-cased words, stop words dropped
Tokens(s) ==
    CASE s = "Aquisicao de computadores" -> {"aquisicao", "computadores"}
      [] s = "Aquisicao de material"     -> {"aquisicao", "material"}
      [] s = "Dispensa de Licitacao"     -> {"dispensa", "licitacao"}
      [] s = "Pregao Eletronico"         -> {"pregao", "eletronico"}
      [] s = "MG"                        -> {"mg"}
      [] s = "SP"                        -> {"sp"}
      [] s = ""                          -> {}
      [] OTHER                           -> {s}

\* A term clause matches a document when the field is in the mapping and
\* holds the very value (keyword), or the value is one of the analyzed terms
\* (text); a field that is not in the mapping matches no document. A range
\* clause compares numbers.
ClauseMatches(mapping, doc, c) ==
    LET type == FieldType(mapping, c.field)
        v    == SourceValue(doc, c.field)
    IN IF c.kind = "term"
       THEN CASE type = "keyword" -> v = c.value
              [] type = "text"    -> /\ v.t = "str" /\ c.value.t = "str"
                                     /\ c.value.s \in Tokens(v.s)
              [] OTHER            -> FALSE
       ELSE /\ type = "float" /\ v.t = "int" /\ c.value.t = "int"
            /\ IF c.op = "gte" THEN v.n >= c.value.n ELSE v.n <= c.value.n

\* multi_match with operator 'and': every term of the query is in one and
\* the same of the fields (of those the documents of the model have)
MultiMatches(mapping, doc, mm) ==
    /\ Tokens(mm.query) # {}
    /\ \E k \in 1..Len(mm.fields) :
         LET v == SourceValue(doc, mm.fields[k]) IN
         /\ FieldType(mapping, SourceKey(mm.fields[k])) = "text"
         /\ v.t = "str"
         /\ Tokens(mm.query) \subseteq Tokens(v.s)

\* the document matches the request body search_text built
Matches(mapping, doc, query) ==
    /\ \A k \in 1..Len(query.bool.must) :
          MultiMatches(mapping, doc, query.bool.must[k])
    /\ \A k \in 1..Len(query.bool.filter) :
          ClauseMatches(mapping, doc, query.bool.filter[k])

\* json.dumps of a raw record (pncp_sync.py, lines 223 and 285) and
\* json.loads of that text (line 318)
JsonDumps(rec) == [json_text_of |-> rec]
JsonLoads(text) == text.json_text_of

\* IndexDocument with the fallback of line 320: dados_completos as text
IndexDocument_AsText(row, rec) ==
    ToDict(row) @@ [dados_completos |-> JsonDumps(rec)]

\* _index_licitacao, lines 311-320: the document of a row whose
\* dados_completos is json.dumps(rec)
IndexDocument(row, rec) ==
    ToDict(row) @@ [dados_completos |-> JsonLoads(JsonDumps(rec))]

\* a document of the test script (test_elasticsearch.py, lines 103-155)
TestDoc(id, objeto, modalidade, uf) ==
    [id |-> JInt(id), id_externo |-> JStr("TEST"), objeto |-> JStr(objeto),
     modalidade |-> JStr(modalidade), uf |-> JStr(uf)]

NoDocument == [id |-> JNull]

\* the cluster without the index
NoIndex ==
    [exists |-> FALSE, mapping |-> <<>>, docs |-> <<>>, raw |-> <<>>,
     late_creates |-> 0]

\* a thread that is in no call of the service. op is the method and pc the
\* place in it; then its arguments, what it returned (ret, ret_doc, hits),
\* and whether the cluster failed a request of the call
EsIdle ==
    [op |-> "none", pc |-> "idle", doc_id |-> 0, document |-> NoDocument,
     raw |-> NoRecord, text |-> "", filters |-> NoFilters,
     ret |-> "none", ret_doc |-> NoDocument, hits |-> {}, es_error |-> FALSE]

\* the index (with, as history, the raw record each document was built from
\* and the number of create requests received while the index existed) and
\* the call of each thread
EsInit == [index |-> NoIndex, calls |-> [t \in Threads |-> EsIdle]]

\* create_index, lines 64-68: the method is called and asks whether the
\* index exists; if so it returns True
create_index_begin(t) ==
    /\ es.calls[t].pc = "idle"
    /\ es' = [es EXCEPT !.calls[t] =
                IF es.index.exists
                THEN [EsIdle EXCEPT !.op = "create_index", !.pc = "done",
                                    !.ret = "True"]
                ELSE [EsIdle EXCEPT !.op = "create_index", !.pc = "create"]]
    /\ UNCHANGED <<jobs, queried, stop_called, search, th, licitacoes_tbl, es_docs, last_sync,
                   now, max_retries, is_running, scheduler_thread>>

\* create_index, lines 140-146: the create request. The cluster creates the
\* index with the mapping; it rejects the request when the index exists by
\* now, or fails (EsOk); either exception is caught and False returned.
\* Called from index_document, the method goes on to index the document.
indices_create(t, EsOk) ==
    /\ es.calls[t].pc = "create"
    /\ \E ok \in EsOk :
         LET created == ok /\ ~es.index.exists
             c == es.calls[t]
         IN es' = [es EXCEPT
                     !.index =
                        IF created
                        THEN [@ EXCEPT !.exists = TRUE,
                                       !.mapping = CreateIndexMapping]
                        ELSE IF ok THEN [@ EXCEPT !.late_creates = @ + 1]
                        ELSE @,
                     !.calls[t] =
                        IF c.op = "create_index"
                        THEN [c EXCEPT !.pc = "done",
                                       !.ret = IF created THEN "True" ELSE "False",
                                       !.es_error = ~ok]
                        ELSE [c EXCEPT !.pc = "index"]]
    /\ UNCHANGED <<jobs, queried, stop_called, search, th, licitacoes_tbl, es_docs, last_sync,
                   now, max_retries, is_running, scheduler_thread>>

\* index_document, lines 159-162: the method is called with a document of
\* Docs under its id and asks whether the index exists; if not it calls
\* create_index
index_document_begin(t, Docs) ==
    /\ es.calls[t].pc = "idle"
    /\ \E doc \in Docs :
         es' = [es EXCEPT !.calls[t] =
                  [EsIdle EXCEPT !.op = "index_document", !.doc_id = doc.id.n,
                                 !.document = doc,
                                 !.pc = IF es.index.exists THEN "index"
                                        ELSE "create_index"]]
    /\ UNCHANGED <<jobs, queried, stop_called, search, th, licitacoes_tbl, es_docs, last_sync,
                   now, max_retries, is_running, scheduler_thread>>

\* _create_licitacao and _index_licitacao (pncp_sync.py, lines 177-224 and
\* 310-323) for the first record of an empty table: the entity is built
\* from a raw record of Records, its document from the entity, and
\* index_document is called with it
index_licitacao(t, Records) ==
    /\ es.calls[t].pc = "idle"
    /\ licitacoes_tbl = <<>>
    /\ 1 \notin DOMAIN es.index.docs
    /\ \E rec \in Records :
         LET row == NewRow(licitacoes_tbl, ExternalId(rec), rec) IN
         es' = [es EXCEPT !.calls[t] =
                  [EsIdle EXCEPT !.op = "index_document", !.doc_id = row.id,
                                 !.document = IndexDocument(row, rec),
                                 !.raw = rec,
                                 !.pc = IF es.index.exists THEN "index"
                                        ELSE "create_index"]]
    /\ UNCHANGED <<jobs, queried, stop_called, search, th, licitacoes_tbl, es_docs, last_sync,
                   now, max_retries, is_running, scheduler_thread>>

\* create_index called at line 162, lines 64-68: the index exists by now
\* and the method returns True, or it goes on to create it
create_index_nested(t) ==
    /\ es.calls[t].pc = "create_index"
    /\ es' = [es EXCEPT !.calls[t].pc =
                IF es.index.exists THEN "index" ELSE "create"]
    /\ UNCHANGED <<jobs, queried, stop_called, search, th, licitacoes_tbl, es_docs, last_sync,
                   now, max_retries, is_running, scheduler_thread>>

\* index_document, lines 165-175: the index request stores the document
\* under its id, in an index that the request itself creates (with a dynamic
\* mapping) if there is none, and True is returned; a failure of the
\* cluster is caught and False returned
client_index(t, EsOk) ==
    /\ es.calls[t].pc = "index"
    /\ \E ok \in EsOk :
         LET c   == es.calls[t]
             ids == DOMAIN es.index.docs \cup {c.doc_id}
         IN es' = [es EXCEPT
                     !.index =
                        IF ok
                        THEN [@ EXCEPT
                                !.exists = TRUE,
                                !.mapping = IF es.index.exists THEN @
                                            ELSE DynamicMapping,
                                !.docs = [k \in ids |->
                                            IF k = c.doc_id THEN c.document
                                            ELSE es.index.docs[k]],
                                !.raw = [k \in ids |->
                                            IF k = c.doc_id THEN c.raw
                                            ELSE es.index.raw[k]]]
                        ELSE @,
                     !.calls[t] =
                        [c EXCEPT !.pc = "done", !.es_error = ~ok,
                                  !.ret = IF ok THEN "True" ELSE "False"]]
    /\ UNCHANGED <<jobs, queried, stop_called, search, th, licitacoes_tbl, es_docs, last_sync,
                   now, max_retries, is_running, scheduler_thread>>

\* get_document, lines 313-325: the _source of the document under the id,
\* or None when there is none
get_document(t, Ids) ==
    /\ es.calls[t].pc = "idle"
    /\ \E doc_id \in Ids :
         es' = [es EXCEPT !.calls[t] =
                  [EsIdle EXCEPT !.op = "get_document", !.pc = "done",
                                 !.doc_id = doc_id,
                                 !.ret = IF doc_id \in DOMAIN es.index.docs
                                         THEN "doc" ELSE "None",
                                 !.ret_doc = IF doc_id \in DOMAIN es.index.docs
                                             THEN es.index.docs[doc_id]
                                             ELSE NoDocument]]
    /\ UNCHANGED <<jobs, queried, stop_called, search, th, licitacoes_tbl, es_docs, last_sync,
                   now, max_retries, is_running, scheduler_thread>>

\* search_text, lines 242-301, with search, lines 214-225: the request body
\* is built from the text and the filters and the cluster answers with the
\* documents that match it; without an index the request fails and
\* {"error": ...} is returned
search_text(t, Texts, Filters) ==
    /\ es.calls[t].pc = "idle"
    /\ \E text \in Texts, filters \in Filters :
         LET query == SearchTextQuery(text, filters) IN
         es' = [es EXCEPT !.calls[t] =
                  [EsIdle EXCEPT
                     !.op = "search_text", !.pc = "done", !.text = text,
                     !.filters = filters,
                     !.ret = IF es.index.exists THEN "results" ELSE "error",
                     !.hits = { k \in DOMAIN es.index.docs :
                                  Matches(es.index.mapping, es.index.docs[k],
                                          query) }]]
    /\ UNCHANGED <<jobs, queried, stop_called, search, th, licitacoes_tbl, es_docs, last_sync,
                   now, max_retries, is_running, scheduler_thread>>

\* the call of the service is over and the caller has its outcome
es_return(t) ==
    /\ es.calls[t].pc = "done"
    /\ es' = [es EXCEPT !.calls[t] = EsIdle]
    /\ UNCHANGED <<jobs, queried, stop_called, search, th, licitacoes_tbl, es_docs, last_sync,
                   now, max_retries, is_running, scheduler_thread>>

----------------------------------------------------------------------------
(* Specifications *)

\* The state after PNCPSyncService.__init__ with a client configured with
\* one of the values of Retries for max_retries, no search request being
\* served
Init(Retries) ==
    /\ th = [t \in Threads |-> IdleFrame]
    /\ licitacoes_tbl = <<>>
    /\ es_docs = <<>>
    /\ last_sync = NoFile
    /\ now = 0
    /\ max_retries \in Retries
    /\ is_running = FALSE
    /\ scheduler_thread = NoThread
    /\ search = NoSearch
    /\ es = EsInit
    /\ stop_called = FALSE
    /\ queried = {}
    /\ jobs = 0

UnreadPages == SeqsUpTo({Unread}, MaxPageLen)

\* One caller, run after run, every kind of record and every totalPaginas
SyncInputs == Inputs(RawRecords, {<<>>}, UnreadPages, TotalValues, FALSE)

Next ==
    \/ sync_licitacoes_begin("t1", {NoDate}, {1, 2}, MaxNow, FALSE)
    \/ make_request_attempt("t1", SyncInputs)
    \/ reconcile_lookup("t1", SyncInputs)
    \/ reconcile_write("t1", BOOLEAN, BOOLEAN, {TRUE}, MaxNow)
    \/ update_last_sync_timestamp("t1", MaxNow)
    \/ json_dump_last_sync("t1", {TRUE})
    \/ sync_return("t1")

Spec == Init({MaxRetries}) /\ [][Next]_vars

\* Two threads, each a manual caller of sync_licitacoes or a scheduler
\* thread; single-page runs over two records
ConcPageLen == 1
ConcRecords == { Rec(JStr("A"), JAbsent, JAbsent), Rec(JAbsent, JInt(5), JAbsent) }
ConcInputs ==
    Inputs(ConcRecords, {<<>>}, SeqsUpTo({Unread}, ConcPageLen), {JAbsent}, FALSE)

NextConc ==
    \/ \E t \in Threads :
         \/ sync_licitacoes_begin(t, {NoDate}, {1}, 0, FALSE)
         \/ make_request_attempt(t, ConcInputs)
         \/ reconcile_lookup(t, ConcInputs)
         \/ reconcile_write(t, BOOLEAN, BOOLEAN, {TRUE}, 0)
         \/ update_last_sync_timestamp(t, 0)
         \/ json_dump_last_sync(t, {TRUE})
         \/ sync_return(t)
         \/ start_scheduled_sync(t)
         \/ run_scheduler_begin(t, FALSE)
         \/ run_scheduler_pending(t)
         \/ run_scheduler_exit(t)
    \/ stop_scheduled_sync(FALSE)

SpecConc == Init({MaxRetries}) /\ [][NextConc]_vars

\* Two threads that start_scheduled_sync starts, and the callers of
\* start_scheduled_sync and stop_scheduled_sync; single-page runs over one
\* record. A thread that can take a step eventually takes one (the threads
\* are scheduled by the operating system and nothing in them blocks for
\* ever); nothing obliges a caller to call start or stop.
SchedPageLen == 1
SchedInputs ==
    Inputs({Rec(JStr("A"), JAbsent, JAbsent)}, {<<>>},
           SeqsUpTo({Unread}, SchedPageLen), {JAbsent}, FALSE)

SchedulerStep(t) ==
    \/ run_scheduler_begin(t, TRUE)
    \/ make_request_attempt(t, SchedInputs)
    \/ reconcile_lookup(t, SchedInputs)
    \/ reconcile_write(t, {TRUE}, BOOLEAN, {TRUE}, 0)
    \/ update_last_sync_timestamp(t, 0)
    \/ json_dump_last_sync(t, {TRUE})
    \/ sync_return(t)
    \/ run_scheduler_pending(t)
    \/ run_scheduler_exit(t)

NextSched ==
    \/ \E t \in Threads : start_scheduled_sync(t)
    \/ \E t \in Threads : SchedulerStep(t)
    \/ stop_scheduled_sync(TRUE)
    \/ stop_scheduled_sync_not_running

SpecSched ==
    /\ Init({MaxRetries})
    /\ [][NextSched]_vars
    /\ \A t \in Threads : WF_vars(SchedulerStep(t))

\* One caller of the client, of fetch_licitacoes or of sync_licitacoes, for
\* every configured max_retries; the responses carry their records and each
\* frame keeps the response it received
ReqPageLen == 1
ReqRecords == { Rec(JStr("A"), JAbsent, JAbsent), Rec(JAbsent, JInt(5), JAbsent) }
ReqInputs ==
    Inputs(ReqRecords, SeqsUpTo(ReqRecords, ReqPageLen),
           SeqsUpTo(ReqRecords, ReqPageLen), {JAbsent, JInt(2)}, TRUE)

NextRequest ==
    \/ \E op \in {"_make_request", "fetch_licitacoes"} : client_call("t1", op)
    \/ client_return("t1")
    \/ sync_licitacoes_begin("t1", {NoDate}, {1}, 0, FALSE)
    \/ make_request_attempt("t1", ReqInputs)
    \/ make_request_exhausted("t1")
    \/ reconcile_lookup("t1", ReqInputs)
    \/ reconcile_write("t1", BOOLEAN, BOOLEAN, {TRUE}, 0)
    \/ update_last_sync_timestamp("t1", 0)
    \/ json_dump_last_sync("t1", {TRUE})
    \/ sync_return("t1")

SpecRequest == Init(0..MaxRetries) /\ [][NextRequest]_vars

\* One caller, run after run, single-page runs over records of one external
\* id that differ in their dates or in their descriptive fields, the database
\* accepting every commit of a row
FieldPageLen == 1
DateRecords ==
    { [dataPublicacaoPncp |-> dpp, dataPublicacao |-> dp, dataInclusao |-> di,
       dataAbertura |-> da] @@ Rec(JStr("A"), JAbsent, JAbsent) :
        dpp \in {JAbsent, JNull, JStr("2024-05-01"), JStr("ontem")},
        dp  \in {JAbsent, JStr("2024-05-02T00:00:00Z")},
        di  \in {JAbsent, JStr("2024-05-03")},
        da  \in {JAbsent, JStr("2024-05-04"), JInt(5)} }
DescriptiveRecords ==
    { [objeto |-> o, valorTotal |-> v] @@ Rec(JStr("A"), JAbsent, JAbsent) :
        o \in {JAbsent, JNull, JStr("o")},
        v \in {JAbsent, JNull, JInt(10)} }
    \cup
    { [descricao |-> d, situacao |-> st] @@ Rec(JStr("A"), JAbsent, JAbsent) :
        d  \in {JAbsent, JNull, JStr("d")},
        st \in {JAbsent, JNull, JStr("s")} }
FieldInputs ==
    Inputs(DateRecords \cup DescriptiveRecords, {<<>>},
           SeqsUpTo({Unread}, FieldPageLen), {JAbsent}, FALSE)

NextFields ==
    \/ sync_licitacoes_begin("t1", {NoDate}, {1}, 0, FALSE)
    \/ make_request_attempt("t1", FieldInputs)
    \/ reconcile_lookup("t1", FieldInputs)
    \/ reconcile_write("t1", {TRUE}, {TRUE}, {TRUE}, 0)
    \/ update_last_sync_timestamp("t1", 0)
    \/ json_dump_last_sync("t1", {TRUE})
    \/ sync_return("t1")

SpecFields == Init({MaxRetries}) /\ [][NextFields]_vars

\* One caller, run after run, single-page runs over records of one external
\* id that differ in objeto and in dataAbertura; the commit of the row, the
\* indexing call and the commit of the indexing status succeed or fail
StalePageLen == 2
StaleRecords ==
    { [objeto |-> o, dataAbertura |-> da] @@ Rec(JStr("A"), JAbsent, JAbsent) :
        o  \in {JAbsent, JStr("o"), JStr("p")},
        da \in {JAbsent, JStr("2024-05-04")} }
StaleInputs ==
    Inputs(StaleRecords, {<<>>}, SeqsUpTo({Unread}, StalePageLen), {JAbsent},
           FALSE)

NextStale ==
    \/ sync_licitacoes_begin("t1", {NoDate}, {1}, 0, FALSE)
    \/ make_request_attempt("t1", StaleInputs)
    \/ reconcile_lookup("t1", StaleInputs)
    \/ reconcile_write("t1", BOOLEAN, BOOLEAN, BOOLEAN, 0)
    \/ update_last_sync_timestamp("t1", 0)
    \/ json_dump_last_sync("t1", {TRUE})
    \/ sync_return("t1")

SpecStale == Init({MaxRetries}) /\ [][NextStale]_vars

\* One caller, run after run, single-page runs over records of two external
\* ids; the commits of the row and of the indexing status succeed or fail,
\* and the clock advances
IndexPageLen == 2
IndexRecords == { Rec(JStr("A"), JAbsent, JAbsent), Rec(JAbsent, JInt(5), JAbsent) }
IndexInputs ==
    Inputs(IndexRecords, {<<>>}, SeqsUpTo({Unread}, IndexPageLen), {JAbsent},
           FALSE)

NextIndex ==
    \/ sync_licitacoes_begin("t1", {NoDate}, {1}, MaxNow, FALSE)
    \/ make_request_attempt("t1", IndexInputs)
    \/ reconcile_lookup("t1", IndexInputs)
    \/ reconcile_write("t1", BOOLEAN, BOOLEAN, BOOLEAN, MaxNow)
    \/ update_last_sync_timestamp("t1", MaxNow)
    \/ json_dump_last_sync("t1", {TRUE})
    \/ sync_return("t1")

SpecIndex == Init({MaxRetries}) /\ [][NextIndex]_vars

\* One caller, run after run, with and without explicit dates of every form;
\* single-page runs over one record; the clock advances, and the write of
\* the checkpoint succeeds or fails
WindowPageLen == 1
WindowDates ==
    { NoDate, DateStr("", 0), DateStr("YYYYMMDD", -1), DateStr("YYYY-MM-DD", 0),
      DateStr("YYYY-M-D", 1), DateStr("DD/MM/YYYY", 1) }
WindowInputs ==
    Inputs({Rec(JStr("A"), JAbsent, JAbsent)}, {<<>>},
           SeqsUpTo({Unread}, WindowPageLen), {JAbsent}, FALSE)

NextWindow ==
    \/ sync_licitacoes_begin("t1", WindowDates, {1}, MaxNow, TRUE)
    \/ make_request_attempt("t1", WindowInputs)
    \/ reconcile_lookup("t1", WindowInputs)
    \/ reconcile_write("t1", {TRUE}, BOOLEAN, {TRUE}, MaxNow)
    \/ update_last_sync_timestamp("t1", MaxNow)
    \/ json_dump_last_sync("t1", BOOLEAN)
    \/ sync_return("t1")

SpecWindow == Init({MaxRetries}) /\ [][NextWindow]_vars

\* One caller, run after run, single-page runs whose pages carry their
\* records: records with and without each of the two identifiers, present
\* and empty
SkipPageLen == 2
SkipRecords ==
    { Rec(ncp, id, JAbsent) :
        ncp \in {JAbsent, JNull, JStr(""), JStr("A")},
        id  \in {JAbsent, JInt(0), JInt(5)} }
SkipInputs ==
    Inputs(SkipRecords, {<<>>}, SeqsUpTo(SkipRecords, SkipPageLen), {JAbsent},
           FALSE)

NextSkip ==
    \/ sync_licitacoes_begin("t1", {NoDate}, {1}, 0, FALSE)
    \/ make_request_attempt("t1", SkipInputs)
    \/ reconcile_lookup("t1", SkipInputs)
    \/ reconcile_write("t1", {TRUE}, BOOLEAN, {TRUE}, 0)
    \/ update_last_sync_timestamp("t1", 0)
    \/ json_dump_last_sync("t1", {TRUE})
    \/ sync_return("t1")

SpecSkip == Init({MaxRetries}) /\ [][NextSkip]_vars

\* One caller, run after run, for every configured max_retries and every
\* totalPaginas, over records that commit, fail, are skipped or are no
\* mapping. A run that has been called goes on: each of its steps is a
\* request with a timeout, a bounded sleep, a database or index call, or a
\* file write, and the thread that executes it is scheduled. Nothing obliges
\* the caller to call again.
LivePageLen == 1
LiveRecords ==
    { Rec(JStr("A"), JAbsent, JAbsent), Rec(JAbsent, JAbsent, JAbsent),
      NotAMapping }
LiveInputs ==
    Inputs(LiveRecords, {<<>>}, SeqsUpTo({Unread}, LivePageLen), TotalValues,
           FALSE)

RunStep(t) ==
    \/ make_request_attempt(t, LiveInputs)
    \/ make_request_exhausted(t)
    \/ reconcile_lookup(t, LiveInputs)
    \/ reconcile_write(t, BOOLEAN, BOOLEAN, {TRUE}, 0)
    \/ update_last_sync_timestamp(t, 0)
    \/ json_dump_last_sync(t, BOOLEAN)
    \/ sync_return(t)

NextLive ==
    \/ sync_licitacoes_begin("t1", {NoDate}, {1}, 0, FALSE)
    \/ RunStep("t1")

SpecLive ==
    /\ Init(0..MaxRetries)
    /\ [][NextLive]_vars
    /\ WF_vars(RunStep("t1"))

\* Search requests with every combination of present, absent, valid and
\* invalid parameters, over an index in which SearchDocs documents match
SearchDocs == 2
MaxScore   == 2
SearchArgs ==
    { Args(q, m, uf, vmin, vmax, dmin, dmax) :
        q    \in {JAbsent, JStr(""), JStr("computer")},
        m    \in {JAbsent, JStr("Pregao")},
        uf   \in {JAbsent, JStr("SP")},
        vmin \in {JAbsent, JStr("1000"), JStr("abc")},
        vmax \in {JAbsent, JStr("2000")},
        dmin \in {JAbsent, JStr("2024-05-01"), JStr("abc")},
        dmax \in {JAbsent, JStr("2024-05-03")} }
SearchHits ==
    [1..SearchDocs -> { Hit(sc, da) : sc \in 1..MaxScore, da \in {None, 1} }]

NextSearch ==
    \/ search_licitacoes(SearchArgs, SearchHits)
    \/ search_licitacoes_again
    \/ search_return

SpecSearch == Init({MaxRetries}) /\ [][NextSearch]_vars

\* Two callers of ElasticsearchService: the documents of the test script
\* and the document of an entity made from a raw record are indexed, read
\* back and searched, with and without filters; the cluster fails requests
EsTestDocs ==
    { TestDoc(1000001, "Aquisicao de computadores", "Pregao Eletronico", "SP"),
      TestDoc(1000003, "Aquisicao de material", "Dispensa de Licitacao", "MG") }
EsRecords ==
    { [objeto |-> JStr("Aquisicao de material"), valorTotal |-> v,
       dataPublicacaoPncp |-> dpp, dataPublicacao |-> dp, dataAbertura |-> da]
      @@ Rec(id[1], id[2], JAbsent) :
        id  \in {<<JStr("A"), JAbsent>>, <<JAbsent, JInt(5)>>},
        v   \in {JAbsent, JInt(10)},
        dpp \in {JAbsent, JStr("2024-05-01")},
        dp  \in {JAbsent, JStr("2024-05-02T00:00:00Z")},
        da  \in {JAbsent, JStr("2024-05-04")} }
EsTexts == {"computadores", "material"}
EsFilters ==
    { [NoFilters EXCEPT !.uf = uf, !.modalidade = m] :
        uf \in {JAbsent, JStr("MG")},
        m  \in {JAbsent, JStr("Dispensa de Licitacao")} }

NextEs ==
    \/ \E t \in Threads :
         \/ create_index_begin(t)
         \/ indices_create(t, BOOLEAN)
         \/ index_document_begin(t, EsTestDocs)
         \/ create_index_nested(t)
         \/ client_index(t, BOOLEAN)
         \/ es_return(t)
    \/ index_licitacao("t1", EsRecords)
    \/ get_document("t1", {1, 1000003})
    \/ search_text("t1", EsTexts, EsFilters)

SpecEs == Init({MaxRetries}) /\ [][NextEs]_vars

----------------------------------------------------------------------------
(* Claims *)

SyncFrames == { t \in Threads : th[t].op = "sync_licitacoes" }

RowsOf(tbl, id_externo) == { k \in 1..Len(tbl) : tbl[k].id_externo = id_externo }

\* C1: a run of sync_licitacoes in which a page fetch failed fatally writes
\* no checkpoint and leaves the checkpoint file as it found it; a run writes
\* the checkpoint only after its page loop ended by one of its two breaks.
C1_CheckpointOnlyOnSuccess ==
    \A t \in SyncFrames :
        /\ th[t].fetch_failed =>
              /\ th[t].ckpt_writes = 0
              /\ th[t].pc \notin {"checkpoint", "ckpt_dump"}
              /\ last_sync = th[t].last_sync_before
        /\ th[t].ckpt_writes > 0 => th[t].loop_exit \in {"empty", "last"}

\* a run whose fetch of page 2 failed fatally is over, a checkpoint of an
\* earlier run being in the file
C1_Witness ==
    \E t \in SyncFrames :
        /\ th[t].pc = "done" /\ th[t].fetch_failed
        /\ th[t].pagina_atual = 2
        /\ last_sync # NoFile

\* C2: every page a run requests after the first is at most the totalPaginas
\* of the first page's response, and once a page came back empty the run
\* requests no further page.
C2_PaginationTermination ==
    \A t \in SyncFrames :
        /\ \A p \in th[t].pages_req :
              p > 1 => /\ th[t].first_total.t = "int"
                       /\ p <= th[t].first_total.n
        /\ th[t].empty_page # 0 =>
              /\ th[t].pc \in {"checkpoint", "ckpt_dump", "done"}
              /\ \A p \in th[t].pages_req : p <= th[t].empty_page

\* a run over a source that reported totalPaginas = 2 and returned two
\* non-empty pages has stopped after page 2
C2_Witness ==
    \E t \in SyncFrames :
        /\ th[t].pc = "checkpoint" /\ th[t].loop_exit = "last"
        /\ th[t].first_total = JInt(2)
        /\ th[t].pages_req = {1, 2}

\* C3: a run without a fatal fetch failure (and with a usable totalPaginas)
\* ends with every record of every page it fetched processed, whichever of
\* them failed, and returns the number of records it committed.
C3_PartialFailureIsolation ==
    \A t \in SyncFrames :
        (/\ th[t].pc = "done"
         /\ ~th[t].fetch_failed
         /\ th[t].first_total.t # "null") =>
            /\ th[t].loop_exit \in {"empty", "last"}
            /\ th[t].unprocessed = 0
            /\ th[t].ret = th[t].committed

\* C4: a reconciliation that commits leaves exactly one row with the record's
\* external id: it adds that row when there was none (create path), and
\* otherwise it is the update path, on the row that was there, and the table
\* gets no new row.
C4_IdempotentUpsert ==
    [][\A t \in SyncFrames :
          (th[t].pc = "write" /\ th'[t].committed = th[t].committed + 1) =>
             LET id     == th[t].licitacao_id
                 before == RowsOf(licitacoes_tbl, id)
                 after  == RowsOf(licitacoes_tbl', id)
             IN /\ Cardinality(after) = 1
                /\ before = {} =>
                      /\ th[t].existing = 0
                      /\ Len(licitacoes_tbl') = Len(licitacoes_tbl) + 1
                /\ before # {} =>
                      /\ after = before
                      /\ th[t].existing \in before
                      /\ Len(licitacoes_tbl') = Len(licitacoes_tbl)]_vars

\* one run has committed two records and the table holds a single row
C4_Witness ==
    \E t \in SyncFrames :
        th[t].committed >= 2 /\ Len(licitacoes_tbl) = 1

\* C5: no two rows of the table share an id_externo, whatever the
\* interleaving of the lookups and the creates of two runs.
C5_UniqueExternalId ==
    \A j, k \in 1..Len(licitacoes_tbl) :
        j # k => licitacoes_tbl[j].id_externo # licitacoes_tbl[k].id_externo

\* a run found no row for an external id and is about to create one, while
\* another run has created the row in between
C5_Witness ==
    \E t \in SyncFrames :
        /\ th[t].pc = "write" /\ th[t].existing = 0
        /\ RowsOf(licitacoes_tbl, th[t].licitacao_id) # {}

\* C6: at most one run of sync_licitacoes triggered through
\* start_scheduled_sync is in flight at any time.
C6_AtMostOneRunInFlight ==
    Cardinality({ t \in SyncFrames : th[t].in_scheduler }) <= 1

\* C7: a call of _make_request or of fetch_licitacoes whose attempts have all
\* failed ends by raising.
C7_ExhaustionIsFatal ==
    \A t \in Threads :
        (/\ th[t].op \in {"_make_request", "fetch_licitacoes"}
         /\ th[t].pc = "done"
         /\ th[t].fetch_failed) => th[t].ret_kind = "raise"

\* C8: a run of sync_licitacoes that a fatal page fetch aborted ends by
\* raising.
C8_FatalFetchRaises ==
    \A t \in SyncFrames :
        (th[t].pc = "done" /\ th[t].fetch_failed) => th[t].ret_kind = "raise"

\* C9: the record list a run of sync_licitacoes works on is the list under
\* 'content' of the page's response if the key is there, else the one under
\* 'data', else the empty list: the list fetch_licitacoes returns for that
\* response.
C9_SameRecordList ==
    \A t \in SyncFrames :
        /\ th[t].pc \in {"record", "write"} =>
              th[t].licitacoes = FetchLicitacoesList(th[t].result)
        /\ (th[t].pc = "checkpoint" /\ th[t].loop_exit = "empty") =>
              FetchLicitacoesList(th[t].result) = <<>>

\* C10 as stated: whenever the record carries the key numeroControlePNCP,
\* the external id is the string form of its value (id is used only when the
\* key is absent).
C10_ControlNumberWheneverPresent ==
    \A t \in SyncFrames :
        (th[t].pc = "write"
         /\ th[t].licitacao_data.numeroControlePNCP.t # "absent") =>
            th[t].licitacao_id = PyStr(th[t].licitacao_data.numeroControlePNCP)

\* C10, amended: the external id used for the lookup and stored in a new row
\* is the string form of numeroControlePNCP when that value is truthy, and
\* the string form of id when numeroControlePNCP is absent, null, '' or 0.
C10_ControlNumberWhenTruthy ==
    [][\A t \in SyncFrames :
          th[t].pc = "write" =>
             LET rec      == th[t].licitacao_data
                 ncp      == rec.numeroControlePNCP
                 empty    == \/ ncp.t \in {"absent", "null"}
                             \/ (ncp.t = "str" /\ ncp.s = "")
                             \/ (ncp.t = "int" /\ ncp.n = 0)
                 expected == IF empty THEN PyStr(rec.id) ELSE PyStr(ncp)
             IN /\ th[t].licitacao_id = expected
                /\ th[t].existing # 0 =>
                      licitacoes_tbl[th[t].existing].id_externo = expected
                /\ Len(licitacoes_tbl') > Len(licitacoes_tbl) =>
                      licitacoes_tbl'[Len(licitacoes_tbl')].id_externo = expected]_vars

\* a record with numeroControlePNCP 'A' and id 5 is being reconciled under
\* the external id 'A'
C10_Witness ==
    \E t \in SyncFrames :
        /\ th[t].pc = "write"
        /\ th[t].licitacao_data = Rec(JStr("A"), JInt(5), JAbsent)
        /\ th[t].licitacao_id = "A"

\* the step of thread t is a reconciliation that committed its record and
\* counted it (line 148)
Committed(t) ==
    th[t].pc = "write" /\ th'[t].committed = th[t].committed + 1

\* the row that the reconciliation of thread t wrote
WrittenRow(t) ==
    licitacoes_tbl'[IF th[t].existing = 0 THEN Len(licitacoes_tbl')
                    ELSE th[t].existing]

\* the value is a string that datetime.fromisoformat parses
Parseable(v) == v.t = "str" /\ ReplaceZ(v.s) \in IsoFormats

\* C11: when dataPublicacaoPncp, dataPublicacao and dataInclusao of a record
\* are all set to different parseable values, the row's data_publicacao after
\* the create and after the update is the date of dataPublicacaoPncp.
C11_DatePrecedence ==
    [][\A t \in SyncFrames :
          LET rec == th[t].licitacao_data IN
          (/\ Committed(t)
           /\ Parseable(rec.dataPublicacaoPncp)
           /\ Parseable(rec.dataPublicacao)
           /\ Parseable(rec.dataInclusao)
           /\ rec.dataPublicacaoPncp # rec.dataPublicacao
           /\ rec.dataPublicacao # rec.dataInclusao
           /\ rec.dataPublicacaoPncp # rec.dataInclusao) =>
              WrittenRow(t).data_publicacao =
                 FromIsoFormat(ReplaceZ(rec.dataPublicacaoPncp.s))]_vars

\* a record with the three dates set is about to update a row whose
\* data_publicacao came from a dataInclusao
C11_Witness ==
    \E t \in SyncFrames :
        /\ th[t].pc = "write" /\ th[t].existing # 0
        /\ Parseable(th[t].licitacao_data.dataPublicacaoPncp)
        /\ Parseable(th[t].licitacao_data.dataPublicacao)
        /\ Parseable(th[t].licitacao_data.dataInclusao)
        /\ licitacoes_tbl[th[t].existing].data_publicacao = 3

\* C12: when a higher-priority date field is present but does not parse and
\* a lower-priority one holds a parseable value, data_publicacao is set from
\* the lower-priority field, on create and on update.
C12_FirstParseableWins ==
    [][\A t \in SyncFrames :
          LET rec == th[t].licitacao_data IN
          (/\ Committed(t)
           /\ rec.dataPublicacaoPncp.t = "str"
           /\ ~Parseable(rec.dataPublicacaoPncp)
           /\ Parseable(rec.dataPublicacao)) =>
              WrittenRow(t).data_publicacao =
                 FromIsoFormat(ReplaceZ(rec.dataPublicacao.s))]_vars

\* C13: whatever value a date field of the record holds, the create and the
\* update do not raise because of it: the record is reconciled and counted,
\* and a date that did not parse is null on create and unchanged on update.
C13_DateNeverRaises ==
    [][\A t \in SyncFrames :
          th[t].pc = "write" =>
             LET rec == th[t].licitacao_data
                 old == IF th[t].existing = 0 THEN None
                        ELSE licitacoes_tbl[th[t].existing].data_abertura
             IN /\ Committed(t)
                /\ (rec.dataAbertura.t # "absent" /\ ~Parseable(rec.dataAbertura))
                      => WrittenRow(t).data_abertura = old]_vars

\* C14: on the update path each of objeto, descricao, valor_estimado and
\* situacao that was non-null before is non-null after, whether the record's
\* key is absent or holds null; an absent key leaves the existing value.
C14_UpdateNeverNulls ==
    [][\A t \in SyncFrames :
          (Committed(t) /\ th[t].existing # 0) =>
             LET rec == th[t].licitacao_data
                 old == licitacoes_tbl[th[t].existing]
                 new == licitacoes_tbl'[th[t].existing]
             IN /\ old.objeto # JNull => new.objeto # JNull
                /\ old.descricao # JNull => new.descricao # JNull
                /\ old.valor_estimado # JNull => new.valor_estimado # JNull
                /\ old.situacao # JNull => new.situacao # JNull
                /\ rec.objeto = JAbsent => new.objeto = old.objeto
                /\ rec.descricao = JAbsent => new.descricao = old.descricao
                /\ rec.valorTotal = JAbsent
                      => new.valor_estimado = old.valor_estimado
                /\ rec.situacao = JAbsent => new.situacao = old.situacao]_vars

\* C15: every row with indexado = true has data_indexacao set, and a document
\* whose id is the row's primary key is in the search index.
C15_IndexadoImpliesDocument ==
    \A k \in 1..Len(licitacoes_tbl) :
        licitacoes_tbl[k].indexado =>
            /\ licitacoes_tbl[k].data_indexacao # None
            /\ licitacoes_tbl[k].id \in DOMAIN es_docs

\* one row is marked indexado and another, whose indexing failed, is not
C15_Witness ==
    \E j, k \in 1..Len(licitacoes_tbl) :
        /\ licitacoes_tbl[k].indexado
        /\ ~licitacoes_tbl[j].indexado /\ j \notin DOMAIN es_docs

FilterKeys ==
    {"modalidade", "uf", "valor_min", "valor_max", "data_abertura_min",
     "data_abertura_max"}

\* the field and the operator of the clause that stands for a filter
ClauseField(k) ==
    CASE k = "modalidade"        -> "modalidade.keyword"
      [] k = "uf"                -> "uf"
      [] k \in {"valor_min", "valor_max"} -> "valor_estimado"
      [] OTHER                   -> "data_abertura"
ClauseOp(k) ==
    CASE k \in {"modalidade", "uf"} -> "eq"
      [] k \in {"valor_min", "data_abertura_min"} -> "gte"
      [] OTHER -> "lte"

\* the positions of the clauses of the request that stand for filter k
ClausesFor(k) ==
    { i \in 1..Len(search.query.bool.filter) :
        /\ search.query.bool.filter[i].field = ClauseField(k)
        /\ search.query.bool.filter[i].op = ClauseOp(k) }

\* C17: the filter list of the request built by search_text holds exactly one
\* clause for each filter supplied to it (a term for modalidade and uf, a
\* range with gte or lte for the others, on the supplied value) and no other
\* clause, and it stands in the same bool query as the text match, which is
\* how Elasticsearch combines the two by AND; for {uf: 'SP', valor_min: 1000}
\* the list is a term on uf = 'SP' and a range on valor_estimado with gte 1000.
C17_OneClausePerFilter ==
    search.pc = "done" =>
       LET fl       == search.filters
           cl       == search.query.bool.filter
           Supplied == { k \in FilterKeys : fl[k] # JAbsent }
       IN /\ Len(cl) = Cardinality(Supplied)
          /\ \A k \in Supplied :
                /\ Cardinality(ClausesFor(k)) = 1
                /\ \A i \in ClausesFor(k) :
                      /\ cl[i].value = fl[k]
                      /\ cl[i].kind = IF k \in {"modalidade", "uf"}
                                      THEN "term" ELSE "range"
          /\ \A k \in FilterKeys \ Supplied : ClausesFor(k) = {}
          /\ search.query.bool.has_filter = (Supplied # {})
          /\ Len(search.query.bool.must) = 1
          /\ search.query.bool.must[1].query = search.termo
          /\ (Supplied = {"uf", "valor_min"} /\ fl.uf = JStr("SP")
              /\ fl.valor_min = JInt(1000)) =>
                cl = << [kind |-> "term", field |-> "uf", op |-> "eq",
                         value |-> JStr("SP")],
                        [kind |-> "range", field |-> "valor_estimado",
                         op |-> "gte", value |-> JInt(1000)] >>

\* the request for 'computer' with uf = SP and valor_min = 1000 has been built
C17_Witness ==
    /\ search.pc = "done"
    /\ search.termo = "computer"
    /\ search.filters = [NoFilters EXCEPT !.uf = JStr("SP"),
                                          !.valor_min = JInt(1000)]
    /\ Len(search.query.bool.filter) = 2

\* the parameter parses to a valid value: a number for valor_min and
\* valor_max, a date for the two dates, a non-empty value for modalidade, uf
ValidParam(k, v) ==
    /\ v.t = "str"
    /\ CASE k \in {"valor_min", "valor_max"} -> v.s \in FloatFormats
         [] k \in {"data_abertura_min", "data_abertura_max"} ->
               ReplaceZ(v.s) \in IsoFormats
         [] OTHER -> v.s # ""

\* C18: the request holds a clause for a filter exactly when its parameter
\* was supplied and parses to a valid value; a supplied parameter that does
\* not parse produces no clause.
C18_ClauseOnlyIfValid ==
    search.pc = "done" =>
       \A k \in FilterKeys :
          (ClausesFor(k) # {}) <=> ValidParam(k, search.args[k])

\* C19: two executions of the same request over the same index return the
\* matching documents in the same order.
C19_DeterministicOrder ==
    (search.pc = "done" /\ search.executions = 2) =>
        search.items_again = search.items

\* C20: the text-match clause is in the request only when the free text is
\* non-empty; then it is one multi_match over objeto^3, descricao^2,
\* orgao_nome, municipio with operator and and fuzziness AUTO.
C20_TextClauseOnlyIfText ==
    search.pc = "done" =>
       /\ search.termo = "" => search.query.bool.must = <<>>
       /\ search.termo # "" =>
             search.query.bool.must =
                << [query |-> search.termo,
                    fields |-> <<"objeto^3", "descricao^2", "orgao_nome",
                                 "municipio">>,
                    type |-> "best_fields", operator |-> "and",
                    fuzziness |-> "AUTO"] >>

\* the day a run called with these arguments starts its window at: the
\* explicit date, else the checkpoint's date, else 30 days before today
WindowStart(f) ==
    IF f.data_inicial.form \notin {"none", ""} THEN f.data_inicial.day
    ELSE IF f.last_sync_before \notin {NoFile, EmptyFile} THEN f.last_sync_before
    ELSE f.hoje - 30

\* the day it ends its window at: the explicit date, else today
WindowEnd(f) ==
    IF f.data_final.form \notin {"none", ""} THEN f.data_final.day ELSE f.hoje

\* C21: the requests of a run carry as dataInicial the explicit data_inicial
\* if given, else the checkpoint's date, else today minus 30 days, and as
\* dataFinal the explicit data_final if given, else today, both as 8-digit
\* YYYYMMDD dates whatever the form of the explicit dates the run accepted.
C21_WindowAsCompactDates ==
    \A t \in SyncFrames :
        th[t].pages_req # {} =>
            /\ th[t].params.dataInicial = DateStr("YYYYMMDD", WindowStart(th[t]))
            /\ th[t].params.dataFinal = DateStr("YYYYMMDD", WindowEnd(th[t]))

\* C22: the checkpoint file never holds an empty or partial document: who
\* reads it at any instant, or finds it after a crash at any instant, sees
\* the previous checkpoint or the new one.
C22_CheckpointNeverPartial == last_sync # EmptyFile

\* the day a date string of a raw record names
DayNamed(s) ==
    CASE s = "2024-05-01"           -> 1
      [] s = "2024-05-02T00:00:00Z" -> 2
      [] s = "2024-05-04"           -> 4

\* the normalized form of the date under the first of the keys that is in
\* the raw record, None when none of them is
NormalizedDate(rec, keys) ==
    IF \A k \in 1..Len(keys) : rec[keys[k]].t = "absent" THEN JNull
    ELSE LET first == CHOOSE k \in 1..Len(keys) :
                        /\ rec[keys[k]].t # "absent"
                        /\ \A j \in 1..(k - 1) : rec[keys[j]].t = "absent"
         IN JStr(IsoFormat(DayNamed(rec[keys[first]].s)))

\* C23: the document that get_document returns for an entity created from
\* a raw record and indexed by _index_licitacao has the external id of the
\* record, its valorTotal as valor_estimado, its dates in normalized form
\* as data_publicacao and data_abertura, and the record itself as
\* dados_completos.
C23_RoundTrip ==
    \A t \in Threads :
        LET c == es.calls[t] IN
        (/\ c.op = "get_document" /\ c.ret = "doc"
         /\ es.index.raw[c.doc_id] # NoRecord) =>
            LET raw == es.index.raw[c.doc_id]
                doc == c.ret_doc
            IN /\ doc.id_externo =
                    JStr(IF Truthy(raw.numeroControlePNCP)
                         THEN PyStr(raw.numeroControlePNCP) ELSE PyStr(raw.id))
               /\ doc.valor_estimado =
                    (IF raw.valorTotal.t = "absent" THEN JNull ELSE raw.valorTotal)
               /\ doc.data_publicacao =
                    NormalizedDate(raw, <<"dataPublicacaoPncp", "dataPublicacao",
                                          "dataInclusao">>)
               /\ doc.data_abertura = NormalizedDate(raw, <<"dataAbertura">>)
               /\ doc.dados_completos = raw

\* the document of a record identified by its id 5, with a valorTotal and
\* with dataPublicacao ending in 'Z' as its only publication date, has
\* been read back
C23_Witness ==
    \E t \in Threads :
        /\ es.calls[t].op = "get_document" /\ es.calls[t].ret = "doc"
        /\ es.calls[t].doc_id = 1
        /\ es.index.raw[1].id = JInt(5)
        /\ es.index.raw[1].valorTotal = JInt(10)
        /\ es.index.raw[1].dataPublicacaoPncp = JAbsent
        /\ es.index.raw[1].dataPublicacao = JStr("2024-05-02T00:00:00Z")
        /\ es.calls[t].ret_doc.data_publicacao = JStr("2024-05-02T00:00:00")

\* C24: in an index that create_index created, search_text returns every
\* document whose objeto the text matches and whose uf and modalidade are
\* the ones passed as filters.
C24_FilteredSearchFindsDocument ==
    [][\A t \in Threads :
        LET c == es'.calls[t] IN
        (/\ es.calls[t].pc = "idle"
         /\ c.op = "search_text" /\ c.ret = "results"
         /\ es.index.mapping = CreateIndexMapping) =>
            \A k \in DOMAIN es.index.docs :
                LET doc == es.index.docs[k] IN
                (/\ {"uf", "modalidade"} \subseteq DOMAIN doc
                 /\ Tokens(c.text) # {}
                 /\ Tokens(c.text) \subseteq Tokens(doc.objeto.s)
                 /\ c.filters.uf = doc.uf
                 /\ c.filters.modalidade = doc.modalidade) => k \in c.hits]_vars

\* C25: a call of create_index that the cluster does not fail returns True,
\* whether it created the index or found it, and no create request reaches
\* the cluster while the index exists.
C25_CreateIndexIdempotent ==
    /\ es.index.late_creates = 0
    /\ \A t \in Threads :
          (/\ es.calls[t].op = "create_index" /\ es.calls[t].pc = "done"
           /\ ~es.calls[t].es_error) => es.calls[t].ret = "True"

\* C26: a call sends at most max_retries requests; while its requests fail
\* each is followed by a wait of retry_delay * 2^attempt (2, 4, 8, ...
\* seconds) and the next request; a call whose requests all failed has sent
\* exactly max_retries of them and has not waited after the last; a call
\* that got a response has sent no request after it.
C26_RetryBackoff ==
    \A t \in Threads :
        LET f == th[t] IN
        /\ f.requests <= max_retries
        /\ \A k \in 1..Len(f.waits) : f.waits[k] = retry_delay * 2^(k - 1)
        /\ f.pc = "request" =>
              f.requests = f.attempt /\ Len(f.waits) = f.attempt
        /\ f.fetch_failed =>
              f.requests = max_retries /\ Len(f.waits) = max_retries - 1
        /\ (/\ f.op \in {"_make_request", "fetch_licitacoes"}
            /\ f.pc = "done" /\ ~f.fetch_failed /\ f.requests > 0) =>
              Len(f.waits) = f.requests - 1

\* a call of _make_request with max_retries = 3 has raised after three
\* failed requests and waits of 2 and 4 seconds
C26_Witness ==
    \E t \in Threads :
        /\ th[t].op = "_make_request" /\ th[t].pc = "done"
        /\ th[t].ret_kind = "raise"
        /\ max_retries = 3
        /\ th[t].requests = 3
        /\ th[t].waits = <<2, 4>>

\* C27 as stated: a run whose page loop ended by one of its breaks has
\* written the checkpoint exactly once when it returns.
C27_CheckpointExactlyOnce ==
    \A t \in SyncFrames :
        (th[t].pc = "done" /\ th[t].loop_exit \in {"empty", "last"}) =>
            th[t].ckpt_writes = 1

\* C27: a run writes the checkpoint at most once; it touches the file only
\* after its page loop ended by one of its breaks, every record of every
\* page it fetched having been processed, and before it returns; the value
\* of a write that succeeded is the time the clock showed at the write.
C27_CheckpointAtMostOnce ==
    \A t \in SyncFrames :
        /\ th[t].ckpt_writes <= 1
        /\ th[t].pc \in {"request", "record", "write", "checkpoint"} =>
              th[t].ckpt_writes = 0 /\ last_sync = th[t].last_sync_before
        /\ th[t].ckpt_writes = 1 =>
              /\ th[t].pc = "done"
              /\ th[t].loop_exit \in {"empty", "last"}
              /\ th[t].unprocessed = 0
              /\ last_sync = now

\* a run that queried a window ending on day 0 and committed its record has
\* written the checkpoint on day 1
C27_Witness ==
    \E t \in SyncFrames :
        /\ th[t].pc = "done" /\ th[t].ckpt_writes = 1
        /\ th[t].committed = 1
        /\ th[t].params.dataFinal = DateStr("YYYYMMDD", 0)
        /\ last_sync = 1

\* C28: once stop_scheduled_sync has been called (and start_scheduled_sync
\* not called again), the threads of the scheduler eventually finish the run
\* they are in, start no other and leave their loop.
C28_StopTakesEffect ==
    stop_called ~> (~stop_called \/ \A t \in Threads : th[t].op = "none")

\* C29: the pages a run has requested are 1, 2, ... up to the page it is at,
\* none skipped, whatever `pagina` it was called with, and whenever it
\* requests a page no record of an earlier page is left to reconcile.
C29_PagesInOrder ==
    \A t \in SyncFrames :
        /\ th[t].pagina_atual >= 1
        /\ 1..(th[t].pagina_atual - 1) \subseteq th[t].pages_req
        /\ th[t].pages_req \subseteq 1..th[t].pagina_atual
        /\ th[t].pc = "request" =>
              th[t].unprocessed = 0 /\ th[t].licitacoes = <<>>

\* a run is about to request page 2 after it requested page 1 and
\* committed the two records of that page
C29_Witness ==
    \E t \in SyncFrames :
        /\ th[t].pc = "request" /\ th[t].pagina_atual = 2
        /\ th[t].pages_req = {1}
        /\ th[t].committed = 2

\* C30: a record whose create or update did not commit leaves the table
\* and the index as they were, and the loop goes on to the next record of
\* the page (or to the end of the page) without leaving the run.
C30_CommitFailureIsolated ==
    [][\A t \in Threads :
        (/\ th[t].pc = "write" /\ th'[t] # th[t]
         /\ th'[t].committed = th[t].committed) =>
            /\ licitacoes_tbl' = licitacoes_tbl
            /\ es_docs' = es_docs
            /\ th'[t].count = th[t].count
            /\ th'[t].loop_exit # "exception"
            /\ th[t].i < Len(th[t].licitacoes) =>
                  /\ th'[t].pc = "record"
                  /\ th'[t].i = th[t].i + 1
                  /\ th'[t].licitacoes = th[t].licitacoes]_vars

\* the commit of the first record of a page failed, the table is still
\* empty, and the second record of the page is being created
C30_Witness ==
    \E t \in SyncFrames :
        /\ th[t].pc = "write" /\ th[t].i = 2
        /\ th[t].count = 0 /\ th[t].existing = 0
        /\ licitacoes_tbl = <<>>

\* a raw record has no usable identifier: neither key holds a truthy value
NoIdentifier(rec) ==
    ~Truthy(rec.numeroControlePNCP) /\ ~Truthy(rec.id)

\* C31: the step of the loop over a record with neither a numeroControlePNCP
\* nor an id changes no row and no index document, counts nothing, and goes
\* on to the next record of the page (or to the end of the page) without
\* leaving the run.
C31_NoIdentifierSkipped ==
    [][\A t \in Threads :
        (/\ th[t].pc = "record" /\ th'[t] # th[t]
         /\ th[t].licitacoes[th[t].i].mapping
         /\ NoIdentifier(th[t].licitacoes[th[t].i])) =>
            /\ licitacoes_tbl' = licitacoes_tbl
            /\ es_docs' = es_docs
            /\ th'[t].committed = th[t].committed
            /\ th'[t].loop_exit # "exception"
            /\ IF th[t].i < Len(th[t].licitacoes)
               THEN /\ th'[t].pc = "record"
                    /\ th'[t].i = th[t].i + 1
                    /\ th'[t].count = th[t].count
                    /\ th'[t].licitacoes = th[t].licitacoes
               ELSE th'[t].total_count = th[t].total_count + th[t].count]_vars

\* the first record of a page had neither key, nothing was counted or
\* written for it, and the second record of the page is being created
C31_Witness ==
    \E t \in SyncFrames :
        /\ th[t].pc = "write" /\ th[t].i = 2
        /\ th[t].licitacoes[1] = Rec(JAbsent, JAbsent, JAbsent)
        /\ th[t].count = 0 /\ th[t].committed = 0
        /\ licitacoes_tbl = <<>>

\* C32: a run whose last response had neither 'data' nor 'content' has no
\* record of that page to reconcile, has left its loop as for an empty page
\* at that page, raises nothing and returns the count of the pages before.
C32_MissingEnvelopeIsEmptyPage ==
    \A t \in SyncFrames :
        (/\ th[t].result # NoResponse
         /\ ~th[t].result.has_data /\ ~th[t].result.has_content) =>
            /\ th[t].pc \in {"checkpoint", "ckpt_dump", "done"}
            /\ th[t].loop_exit = "empty"
            /\ th[t].empty_page = th[t].pagina_atual
            /\ th[t].licitacoes = <<>> /\ th[t].unprocessed = 0
            /\ ~th[t].fetch_failed
            /\ th[t].pc = "done" =>
                  /\ th[t].ret_kind = "return"
                  /\ th[t].ret = th[t].committed

\* a run committed the record of page 1, the response for page 2 had no
\* envelope key, and the run has returned 1
C32_Witness ==
    \E t \in SyncFrames :
        /\ th[t].pc = "done" /\ th[t].pagina_atual = 2
        /\ th[t].result # NoResponse
        /\ ~th[t].result.has_data /\ ~th[t].result.has_content
        /\ th[t].committed = 1 /\ th[t].ret = 1

\* C33: a reconciliation step never changes the id or the id_externo of a
\* row that was in the table, and the indexado and data_indexacao of a row
\* change only together with a successful index_document of that row, as
\* _index_licitacao writes them; a row that is added without one has
\* indexado = False and no data_indexacao.
C33_ReconcilerFrame ==
    [][\A t \in Threads :
        (th[t].pc = "write" /\ th'[t] # th[t]) =>
            LET k == IF th[t].existing = 0 THEN Len(licitacoes_tbl) + 1
                     ELSE th[t].existing
                marked(j) == /\ j = k /\ j \in DOMAIN es_docs'
                             /\ licitacoes_tbl'[j].indexado
                             /\ licitacoes_tbl'[j].data_indexacao = now'
            IN /\ \A j \in 1..Len(licitacoes_tbl) :
                    /\ licitacoes_tbl'[j].id = licitacoes_tbl[j].id
                    /\ licitacoes_tbl'[j].id_externo = licitacoes_tbl[j].id_externo
                    /\ \/ /\ licitacoes_tbl'[j].indexado = licitacoes_tbl[j].indexado
                          /\ licitacoes_tbl'[j].data_indexacao =
                                licitacoes_tbl[j].data_indexacao
                       \/ marked(j)
               /\ \A j \in (Len(licitacoes_tbl) + 1)..Len(licitacoes_tbl') :
                    \/ /\ ~licitacoes_tbl'[j].indexado
                       /\ licitacoes_tbl'[j].data_indexacao = None
                    \/ marked(j)]_vars

\* a run has created a row and then updated it (two commits, one row); the
\* row was indexed at tick 0 and the update, at tick 1, left its indexing
\* fields as they were
C33_Witness ==
    \E t \in SyncFrames :
        /\ th[t].committed = 2 /\ Len(licitacoes_tbl) = 1
        /\ licitacoes_tbl[1].indexado
        /\ licitacoes_tbl[1].data_indexacao = 0 /\ now = 1

\* the start date of the window of a run called without dates that reads
\* the clock as `hoje`, the checkpoint file being as it is now
NextDefaultStart(hoje) ==
    Window(NoDate, NoDate, get_last_sync_timestamp(last_sync), hoje)
        .params.dataInicial

\* C34: when a run called without data_inicial has been aborted by a fatal
\* fetch failure, a run called without dates at any later time queries a
\* window that starts on the start date of the aborted run.
C34_AbortedWindowRetried ==
    \A t \in SyncFrames :
        (/\ th[t].pc = "done" /\ th[t].fetch_failed
         /\ th[t].data_inicial \in {NoDate, DateStr("", 0)}) =>
            \A hoje \in DatetimeNow(MaxNow) :
                NextDefaultStart(hoje) = th[t].params.dataInicial

\* C35: a run that has ended, by one of the breaks of its page loop or by a
\* fatal fetch failure, returns the number of records it committed on the
\* pages it processed.
C35_ReturnsCommittedCount ==
    \A t \in SyncFrames :
        (/\ th[t].pc = "done"
         /\ th[t].loop_exit \in {"empty", "last"} \/ th[t].fetch_failed) =>
            /\ th[t].ret_kind = "return"
            /\ th[t].ret = th[t].committed

\* C36: a run of sync_licitacoes that has been called eventually returns to
\* its caller, whatever max_retries, the totalPaginas of the first page, the
\* records and the failures of its requests and commits.
C36_RunEventuallyReturns ==
    \A t \in Threads : (th[t].op = "sync_licitacoes") ~> (th[t].op = "none")

\* a run has committed the record of page 1, every attempt of its request
\* for page 2 has failed, and it is about to return
C36_Witness ==
    \E t \in SyncFrames :
        /\ th[t].pc = "done" /\ th[t].pagina_atual = 2
        /\ th[t].fetch_failed /\ th[t].committed = 1
        /\ th[t].requests = max_retries /\ max_retries = MaxRetries

\* a run called without data_inicial and without data_final
DefaultWindow(f) ==
    /\ f.data_inicial \in {NoDate, DateStr("", 0)}
    /\ f.data_final \in {NoDate, DateStr("", 0)}

\* C37: when a run called without dates writes its checkpoint, the window of
\* the next run called without dates (which starts on the date of that
\* checkpoint) starts no later than the day the window of this run ended.
C37_NoGapBetweenRuns ==
    [][\A t \in Threads :
        (/\ th[t].pc = "ckpt_dump" /\ DefaultWindow(th[t])
         /\ th'[t].ckpt_writes = th[t].ckpt_writes + 1) =>
            Window(NoDate, NoDate, get_last_sync_timestamp(last_sync'), now')
                .params.dataInicial.day <= th[t].params.dataFinal.day]_vars

\* C38: every day from the first day ever queried up to the day before the
\* date of the checkpoint has been queried by a run that completed.
C38_CheckpointWithinQueried ==
    last_sync >= 0 =>
        \A d \in (-LookbackDays)..(last_sync - 1) :
            (\E q \in queried : q <= d) => d \in queried

\* the threads that are in run_scheduler, past its first line
SchedulerLoops ==
    { t \in Threads : th[t].in_scheduler /\ th[t].pc # "spawned" }

\* C39: at most one thread is in run_scheduler and at most one periodic job
\* is registered, whatever calls of start_scheduled_sync and
\* stop_scheduled_sync were made.
C39_OneSchedulerLoop ==
    /\ Cardinality(SchedulerLoops) <= 1
    /\ jobs <= 1

\* C40: the document the index holds under the primary key of a row with
\* indexado = true is the document of the row as it is committed now.
C40_IndexadoMeansCurrentDocument ==
    \A k \in 1..Len(licitacoes_tbl) :
        licitacoes_tbl[k].indexado =>
            /\ k \in DOMAIN es_docs
            /\ es_docs[k] = ToDict(licitacoes_tbl[k])

====
